---- MODULE Spec2Model ----
(***************************************************************************)
(* A model of api-bridge's Operation Set interpreter                       *)
(* (src/lib/Operations.js, lines 1-766: class OperationSet and the         *)
(* built-in operations $cast, $copy, $func, $map, $model, $move, $set,     *)
(* $unset, $wrap).                                                         *)
(*                                                                         *)
(* JavaScript values are modelled with their identity: an object or an     *)
(* array is a cell of a heap and a value that refers to it is a reference, *)
(* so that two places holding the same object see each other's writes.     *)
(***************************************************************************)
EXTENDS Integers, Sequences, FiniteSets, TLC

(***************************************************************************)
(* Bounds of the model.                                                    *)
(***************************************************************************)
\* longest operations list an add may produce
MaxOps == 3
\* process calls per behaviour
MaxCalls == 2
\* nesting depth followed when a value is read out of the heap or cloned
MaxDepth == 4
\* bridges of a versioner
MaxBridges == 3

(***************************************************************************)
(* JavaScript values.  Every value is a record with the same three fields. *)
(***************************************************************************)
Undef == [t |-> "undefined", n |-> 0, s |-> ""]
Null == [t |-> "null", n |-> 0, s |-> ""]
NaN == [t |-> "number", n |-> 0, s |-> "NaN"]
Num(k) == [t |-> "number", n |-> k, s |-> ""]
Str(x) == [t |-> "string", n |-> 0, s |-> x]
Bool(b) == [t |-> "boolean", n |-> IF b THEN 1 ELSE 0, s |-> ""]
Fn(name) == [t |-> "function", n |-> 0, s |-> name]
Ref(a) == [t |-> "ref", n |-> a, s |-> ""]

\* the typeof operator; typeof null is 'object', and so is typeof of an array
TypeOf(h, v) ==
    CASE v.t = "ref" -> "object"
      [] v.t = "null" -> "object"
      [] OTHER -> v.t

IsRef(v) == v.t = "ref"

\* Array.isArray
IsArray(h, v) == IsRef(v) /\ h[v.n].arr

(***************************************************************************)
(* The heap: a sequence of cells.  A cell is an object (its own keys in f) *)
(* or an array (its elements in e, its other own keys in f).  A key that   *)
(* is present with the value undefined differs from an absent key.         *)
(***************************************************************************)
NoKeys == [k \in {} |-> Undef]
ObjCell(f) == [arr |-> FALSE, e |-> <<>>, f |-> f]
ArrCell(e) == [arr |-> TRUE, e |-> e, f |-> NoKeys]

\* the array index a key denotes, -1 for a key that is no index of the model
IndexOf(key) ==
    CASE key = "0" -> 0
      [] key = "1" -> 1
      [] key = "2" -> 2
      [] OTHER -> -1

IndexKey(i) ==
    CASE i = 0 -> "0"
      [] i = 1 -> "1"
      [] i = 2 -> "2"
      [] OTHER -> "9"

\* obj.hasOwnProperty(key)
HasKey(h, a, key) ==
    IF h[a].arr /\ IndexOf(key) >= 0
    THEN IndexOf(key) < Len(h[a].e)
    ELSE key \in DOMAIN h[a].f

\* obj[key] of the object at address a
GetKey(h, a, key) ==
    IF h[a].arr /\ IndexOf(key) >= 0
    THEN IF IndexOf(key) < Len(h[a].e) THEN h[a].e[IndexOf(key) + 1] ELSE Undef
    ELSE IF key \in DOMAIN h[a].f THEN h[a].f[key] ELSE Undef

\* obj[key] = v
PutKey(h, a, key, v) ==
    IF h[a].arr /\ IndexOf(key) >= 0
    THEN LET i == IndexOf(key) + 1
             n == IF i > Len(h[a].e) THEN i ELSE Len(h[a].e)
         IN [h EXCEPT ![a].e = [j \in 1..n |-> IF j = i THEN v
                                               ELSE IF j <= Len(h[a].e) THEN h[a].e[j]
                                               ELSE Undef]]
    ELSE [h EXCEPT ![a].f = [k \in (DOMAIN h[a].f) \cup {key} |->
                                 IF k = key THEN v ELSE h[a].f[k]]]

\* delete obj[key]; deleting an element of an array leaves its length alone
DeleteKey(h, a, key) ==
    IF h[a].arr /\ IndexOf(key) >= 0
    THEN IF IndexOf(key) < Len(h[a].e)
         THEN [h EXCEPT ![a].e[IndexOf(key) + 1] = Undef]
         ELSE h
    ELSE [h EXCEPT ![a].f = [k \in (DOMAIN h[a].f) \ {key} |-> h[a].f[k]]]

(***************************************************************************)
(* Literals.  A literal is a value written in the source of a caller: a    *)
(* primitive value, TObj(f) for { k: literal, ... } or TArr(e) for         *)
(* [literal, ...].  Evaluating a literal allocates fresh cells.            *)
(***************************************************************************)
TObj(f) == [t |-> "tobj", f |-> f]
TArr(e) == [t |-> "tarr", e |-> e]

RECURSIVE Alloc(_, _)
RECURSIVE AllocFields(_, _, _, _)
RECURSIVE AllocElems(_, _, _, _)

\* allocates the fields keys of the object literal f into the cell at a
AllocFields(h, a, f, keys) ==
    IF keys = {} THEN h
    ELSE LET k == CHOOSE x \in keys : TRUE
             r == Alloc(h, f[k])
         IN AllocFields(PutKey(r.h, a, k, r.v), a, f, keys \ {k})

\* allocates the elements i.. of the array literal e into the cell at a
AllocElems(h, a, e, i) ==
    IF i > Len(e) THEN h
    ELSE LET r == Alloc(h, e[i])
         IN AllocElems([r.h EXCEPT ![a].e = Append(@, r.v)], a, e, i + 1)

Alloc(h, lit) ==
    CASE lit.t = "tobj" ->
            LET a == Len(h) + 1
            IN [h |-> AllocFields(Append(h, ObjCell(NoKeys)), a, lit.f, DOMAIN lit.f),
                v |-> Ref(a)]
      [] lit.t = "tarr" ->
            LET a == Len(h) + 1
            IN [h |-> AllocElems(Append(h, ArrCell(<<>>)), a, lit.e, 1), v |-> Ref(a)]
      [] OTHER -> [h |-> h, v |-> lit]

\* The value read out of the heap as a literal (what a deep comparison sees).
\* A nesting deeper than MaxDepth, which only a cyclic value has, reads as "deep".
RECURSIVE DeepN(_, _, _)
DeepN(h, v, d) ==
    IF ~IsRef(v) THEN v
    ELSE IF d = 0 THEN [t |-> "deep", n |-> 0, s |-> ""]
    ELSE IF h[v.n].arr
         THEN [t |-> "tarr", e |-> [i \in 1..Len(h[v.n].e) |-> DeepN(h, h[v.n].e[i], d - 1)],
               f |-> [k \in DOMAIN h[v.n].f |-> DeepN(h, h[v.n].f[k], d - 1)]]
         ELSE [t |-> "tobj", f |-> [k \in DOMAIN h[v.n].f |-> DeepN(h, h[v.n].f[k], d - 1)]]

Deep(h, v) == DeepN(h, v, MaxDepth)

(***************************************************************************)
(* The result of a call: the heap it leaves, the value it returns and the  *)
(* error it throws ("none" when it returns).                               *)
(***************************************************************************)
Ret(h, v) == [h |-> h, v |-> v, err |-> "none"]
Throw(h, e) == [h |-> h, v |-> Undef, err |-> e]

\* r, and when r returned, what the rest of the caller makes of it: a throw ends the caller too
Then(r, Rest(_)) == IF r.err # "none" THEN r ELSE Rest(r)

\* v[key] for any value v: reading a property of null or undefined throws
GetProp(h, v, key) ==
    CASE IsRef(v) -> Ret(h, GetKey(h, v.n, key))
      [] v.t \in {"null", "undefined"} -> Throw(h, "TypeError")
      [] OTHER -> Ret(h, Undef)

(***************************************************************************)
(* Conversions of primitives, as Number(), String() and Boolean() compute  *)
(* them on the strings and numbers of the model.                           *)
(***************************************************************************)
\* the decimal numerals of the model
NumeralOf(k) ==
    CASE k = 0 -> "0"
      [] k = 1 -> "1"
      [] k = 6 -> "6"
      [] k = 46 -> "46"
      [] OTHER -> "?"

Numerals == {"0", "1", "6", "46"}

ValueOfNumeral(s) ==
    CASE s = "0" -> 0
      [] s = "1" -> 1
      [] s = "6" -> 6
      [] s = "46" -> 46
      [] OTHER -> 0

\* String(v)
RECURSIVE StringOf(_, _)
StringOf(h, v) ==
    CASE v.t = "string" -> v.s
      [] v.t = "number" -> IF v.s = "NaN" THEN "NaN" ELSE NumeralOf(v.n)
      [] v.t = "boolean" -> IF v.n = 1 THEN "true" ELSE "false"
      [] v.t = "null" -> "null"
      [] v.t = "undefined" -> "undefined"
      [] v.t = "function" -> "function"
      [] IsRef(v) /\ ~h[v.n].arr -> "[object Object]"
      [] IsRef(v) /\ h[v.n].arr ->
            \* Array.prototype.join: null and undefined elements read as ''
            IF Len(h[v.n].e) = 0 THEN ""
            ELSE IF Len(h[v.n].e) = 1
                 THEN IF h[v.n].e[1].t \in {"null", "undefined"} THEN ""
                      ELSE StringOf(h, h[v.n].e[1])
                 ELSE ","

\* Number(s) of a string
StringToNumber(s) ==
    IF s = "" THEN Num(0)
    ELSE IF s \in Numerals THEN Num(ValueOfNumeral(s))
    ELSE NaN

\* Number(v)
NumberOf(h, v) ==
    CASE v.t = "number" -> v
      [] v.t = "string" -> StringToNumber(v.s)
      [] v.t = "boolean" -> Num(v.n)
      [] v.t = "null" -> Num(0)
      [] v.t = "undefined" -> NaN
      [] v.t = "function" -> NaN
      [] IsRef(v) -> StringToNumber(StringOf(h, v))

\* Boolean(v)
BooleanOf(v) ==
    CASE v.t = "number" -> Bool(v.s # "NaN" /\ v.n # 0)
      [] v.t = "string" -> Bool(v.s # "")
      [] v.t = "boolean" -> v
      [] v.t \in {"null", "undefined"} -> Bool(FALSE)
      [] OTHER -> Bool(TRUE)

\* !v
Falsy(v) == BooleanOf(v).n = 0

(***************************************************************************)
(* The built-in operations.  Each takes the heap and the value it is       *)
(* applied to, and returns Ret(heap, value) or throws.                     *)
(***************************************************************************)
\* module.exports.$cast
op_cast(h, obj, type) ==
    IF obj = Undef THEN Ret(h, Undef)
    ELSE CASE type = Str("number") -> Ret(h, NumberOf(h, obj))
           [] type = Str("string") -> Ret(h, Str(StringOf(h, obj)))
           [] type = Str("boolean") -> Ret(h, BooleanOf(obj))
           [] OTHER -> Ret(h, obj)

\* module.exports.$map
op_map(h, obj, map) ==
    CASE map.t = "null" -> Throw(h, "TypeError")
      [] ~IsRef(map) -> Ret(h, Undef)
      [] OTHER ->
            IF HasKey(h, map.n, StringOf(h, obj))
            THEN Ret(h, GetKey(h, map.n, StringOf(h, obj)))
            ELSE Ret(h, GetKey(h, map.n, ""))

\* a $set that removes the field when it already holds the value
op_set_toggle(h, obj, field, value) ==
    IF Falsy(field) THEN Ret(h, value)
    ELSE IF TypeOf(h, obj) = "object"
         THEN IF IsRef(obj)
              THEN IF HasKey(h, obj.n, field.s) /\ GetKey(h, obj.n, field.s) = value
                   THEN Ret(DeleteKey(h, obj.n, field.s), obj)
                   ELSE Ret(PutKey(h, obj.n, field.s, value), obj)
              ELSE Throw(h, "TypeError")
         ELSE Ret(h, obj)

\* module.exports.$set
op_set(h, obj, field, value) ==
    IF Falsy(field) THEN Ret(h, value)
    ELSE IF TypeOf(h, obj) = "object"
         THEN IF IsRef(obj) THEN Ret(PutKey(h, obj.n, field.s, value), obj)
              ELSE Throw(h, "TypeError")
         ELSE Ret(h, obj)

\* module.exports.$unset
op_unset(h, obj, field) ==
    IF Falsy(field) THEN Ret(h, Undef)
    ELSE IF TypeOf(h, obj) = "object"
         THEN IF IsRef(obj) THEN Ret(DeleteKey(h, obj.n, field.s), obj)
              ELSE Throw(h, "TypeError")
         ELSE Ret(h, obj)

\* module.exports.$wrap
op_wrap(h, obj, wrapper) ==
    IF wrapper.t = "string"
    THEN Ret(Append(h, ObjCell(wrapper.s :> obj)), Ref(Len(h) + 1))
    ELSE Ret(Append(h, ArrCell(<<obj>>)), Ref(Len(h) + 1))

\* The functions a caller gives as $func payloads in the model:
\*   "identity"  obj => obj
\*   "mark"      obj => { obj.marked = true; return obj }   (as test/gap.js:27-30 writes a field)
\*   "toNull"    obj => null
CallFunction(h, name, obj) ==
    CASE name = "identity" -> Ret(h, obj)
      [] name = "mark" ->
            CASE IsRef(obj) -> Ret(PutKey(h, obj.n, "marked", Bool(TRUE)), obj)
              [] obj.t \in {"null", "undefined"} -> Throw(h, "TypeError")
              [] OTHER -> Ret(h, obj)
      [] OTHER -> Ret(h, Null)

\* module.exports.$func
op_func(h, obj, func) == CallFunction(h, func.s, obj)

\* _.cloneDeep: a copy that shares no cell with the original
RECURSIVE cloneDeep(_, _, _)
RECURSIVE CloneFields(_, _, _, _, _)
RECURSIVE CloneElems(_, _, _, _, _)

CloneFields(h, a, src, keys, d) ==
    IF keys = {} THEN h
    ELSE LET k == CHOOSE x \in keys : TRUE
             r == cloneDeep(h, h[src].f[k], d)
         IN CloneFields(PutKey(r.h, a, k, r.v), a, src, keys \ {k}, d)

CloneElems(h, a, src, i, d) ==
    IF i > Len(h[src].e) THEN h
    ELSE LET r == cloneDeep(h, h[src].e[i], d)
         IN CloneElems([r.h EXCEPT ![a].e = Append(@, r.v)], a, src, i + 1, d)

\* a copy that is the original itself
cloneDeep_sharing(h, v, d) == Ret(h, v)

cloneDeep(h, v, d) ==
    IF ~IsRef(v) \/ d = 0 THEN Ret(h, v)
    ELSE Ret(CloneFields(CloneElems(Append(h, IF h[v.n].arr THEN ArrCell(<<>>)
                                              ELSE ObjCell(NoKeys)),
                                    Len(h) + 1, v.n, 1, d - 1),
                         Len(h) + 1, v.n, DOMAIN h[v.n].f, d - 1),
             Ref(Len(h) + 1))

\* module.exports.$copy, lines 624-642: the walk along the destination keys
RECURSIVE CopyDest(_, _, _, _, _, _)
CopyDest(h, obj, cur, clipboard, toKeys, i) ==
    IF i > Len(toKeys) THEN Ret(h, obj)
    ELSE IF ~IsRef(cur) THEN Throw(h, "TypeError")
    ELSE IF i = Len(toKeys) THEN Ret(PutKey(h, cur.n, toKeys[i], clipboard), obj)
    ELSE LET next == GetKey(h, cur.n, toKeys[i])
         IN IF TypeOf(h, next) # "object" \/ IsArray(h, next)
            THEN LET h1 == PutKey(Append(h, ObjCell(NoKeys)), cur.n, toKeys[i], Ref(Len(h) + 1))
                 IN CopyDest(h1, obj, Ref(Len(h) + 1), clipboard, toKeys, i + 1)
            ELSE CopyDest(h, obj, next, clipboard, toKeys, i + 1)

\* module.exports.$copy, lines 583-622: the walk along the source keys, which
\* trims the leading keys that source and destination share, then the check
\* for an empty destination
RECURSIVE CopySource(_, _, _, _, _, _, _, _, _)
CopySource(h, obj, cur, clipboard, fromKeys, toKeys, i, trimming, keepSource) ==
    IF i > Len(fromKeys)
    THEN IF Len(toKeys) = 0 THEN Ret(h, clipboard)
         ELSE CopyDest(h, obj, cur, clipboard, toKeys, 1)
    ELSE IF trimming /\ i <= Len(toKeys) /\ fromKeys[i] = toKeys[i]
    THEN Then(GetProp(h, cur, fromKeys[i]), LAMBDA r :
            IF TypeOf(h, r.v) # "object" THEN Ret(h, obj)
            ELSE CopySource(h, obj, r.v, r.v, fromKeys, Tail(toKeys), i + 1,
                            TRUE, keepSource))
    ELSE Then(GetProp(h, clipboard, fromKeys[i]), LAMBDA r :
            IF i = Len(fromKeys)
            THEN IF keepSource
                 THEN Then(cloneDeep(h, r.v, MaxDepth), LAMBDA c :
                         CopySource(c.h, obj, cur, c.v, fromKeys, toKeys, i + 1,
                                    FALSE, keepSource))
                 ELSE CopySource(DeleteKey(h, clipboard.n, fromKeys[i]),
                                 obj, cur, r.v, fromKeys, toKeys, i + 1,
                                 FALSE, keepSource)
            ELSE IF TypeOf(h, r.v) # "object" THEN Ret(h, obj)
            ELSE CopySource(h, obj, cur, r.v, fromKeys, toKeys, i + 1,
                            FALSE, keepSource))

\* module.exports.$copy
op_copy(h, obj, fromKeys, toKeys, keepSource) ==
    IF TypeOf(h, obj) # "object" THEN Ret(h, obj)
    ELSE CopySource(h, obj, obj, obj, fromKeys, toKeys, 1, TRUE, keepSource)

\* a $move that leaves the source where it is
op_move_keeping(h, obj, fromKeys, toKeys) == op_copy(h, obj, fromKeys, toKeys, TRUE)

\* module.exports.$move
op_move(h, obj, fromKeys, toKeys) == op_copy(h, obj, fromKeys, toKeys, FALSE)

(***************************************************************************)
(* Paths.  A string is read through Chars, its sequence of tokens: a dot   *)
(* is a token, and so is every run of other characters.  The strings with  *)
(* a dot that the model uses are listed; any other string is one token.    *)
(***************************************************************************)
Chars(s) ==
    CASE s = "" -> <<>>
      [] s = "." -> <<".">>
      [] s = "a.b" -> <<"a", ".", "b">>
      [] s = "a.c" -> <<"a", ".", "c">>
      [] s = "b.c" -> <<"b", ".", "c">>
      [] s = "a.b.c" -> <<"a", ".", "b", ".", "c">>
      [] s = "a..b" -> <<"a", ".", ".", "b">>
      [] s = ".a" -> <<".", "a">>
      [] s = "a." -> <<"a", ".">>
      [] s = "d.$.b" -> <<"d", ".", "$", ".", "b">>
      [] s = "d.$.c" -> <<"d", ".", "$", ".", "c">>
      [] s = "d.0.b" -> <<"d", ".", "0", ".", "b">>
      [] OTHER -> <<s>>

\* String.prototype.split('.') on a sequence of tokens: cur is the piece being read
RECURSIVE SplitDots(_, _, _)
SplitDots(cs, i, cur) ==
    IF i > Len(cs) THEN <<cur>>
    ELSE IF cs[i] = "." THEN <<cur>> \o SplitDots(cs, i + 1, "")
    ELSE SplitDots(cs, i + 1, cs[i])

\* a parsePath that keeps every piece split('.') gives
parsePath_literal(path) == SplitDots(Chars(path), 1, "")

\* OperationSet.parsePath
parsePath(path) ==
    IF path = "." THEN <<>>
    ELSE SelectSeq(SplitDots(Chars(path), 1, ""), LAMBDA x : x # "")

(***************************************************************************)
(* Operation records.  A record, and the payload of an operation key, is   *)
(* an object whose keys are read in the order they were written:           *)
(* PObj(<<[k |-> key, v |-> value], ...>>); PArr(<<value, ...>>) is an     *)
(* array payload.  The values inside a payload are JavaScript values: an   *)
(* object or an array among them lives in the heap.                        *)
(***************************************************************************)
PObj(ents) == [t |-> "object", ents |-> ents]
PArr(l) == [t |-> "array", l |-> l]
KV(k, v) == [k |-> k, v |-> v]

\* typeof of a payload
TypeOfP(p) == IF p.t \in {"object", "array", "null", "ref"} THEN "object" ELSE p.t

\* Array.isArray of a payload
IsArrayP(h, p) == p.t = "array" \/ IsArray(h, p)

\* the elements of an array payload
ElemsP(h, p) == IF p.t = "array" THEN p.l ELSE h[p.n].e

\* Object.keys(p) with the values: the entries of a payload in key order
KeysOfCell(h, a) ==
    LET RECURSIVE Order(_)
        Order(ks) == IF ks = {} THEN <<>>
                     ELSE LET k == CHOOSE x \in ks : TRUE
                          IN <<KV(k, h[a].f[k])>> \o Order(ks \ {k})
    IN Order(DOMAIN h[a].f)

EntriesP(h, p) ==
    CASE p.t = "object" -> p.ents
      [] IsArrayP(h, p) -> [i \in 1..Len(ElemsP(h, p)) |-> KV(IndexKey(i - 1), ElemsP(h, p)[i])]
      [] p.t = "ref" -> KeysOfCell(h, p.n)
      [] OTHER -> <<>>

\* p[key] of a record
HasEntry(p, key) == p.t = "object" /\ \E i \in 1..Len(p.ents) : p.ents[i].k = key
EntryOf(p, key) == p.ents[CHOOSE i \in 1..Len(p.ents) : p.ents[i].k = key].v

\* ops.$tag
TagOf(op) == IF HasEntry(op, "$tag") THEN EntryOf(op, "$tag") ELSE Undef

\* the fixed vocabulary: the keys reformat has a case for
Vocabulary == {"$set", "$unset", "$tag", "$move", "$copy", "$cast", "$wrap", "$map",
               "$func", "$model"}

\* const TYPES
TYPES == {Str("number"), Str("string"), Str("boolean")}

(***************************************************************************)
(* Compiled steps (the elements of __operations).                          *)
(***************************************************************************)
Step(operation, field, args, this) ==
    [operation |-> operation, field |-> field, args |-> args, this |-> this]

Front(q) == SubSeq(q, 1, Len(q) - 1)
Reversed(q) == [i \in 1..Len(q) |-> q[Len(q) + 1 - i]]
Last(q) == q[Len(q)]

\* the outcome of compiling something: the steps pushed, and the error thrown
Pushed(steps) == [steps |-> steps, err |-> "none"]
Failed(steps, e) == [steps |-> steps, err |-> e]

\* forEach over the entries of a payload: One(entry) is the outcome of one
\* callback; the steps pushed before a throw stay pushed
RECURSIVE Combine(_, _)
Combine(outs, i) ==
    IF i > Len(outs) THEN Pushed(<<>>)
    ELSE IF outs[i].err # "none" THEN outs[i]
    ELSE LET r == Combine(outs, i + 1)
         IN [steps |-> outs[i].steps \o r.steps, err |-> r.err]

ForEach(ents, One(_)) == Combine([i \in 1..Len(ents) |-> One(ents[i])], 1)

\* a compilation that leaves the shared keys on both paths
CommonPrefix_none(from, to) == [common |-> <<>>, from |-> from, to |-> to]

\* lines 243-257: the keys that source and destination share are taken off both
RECURSIVE CommonPrefix(_, _)
CommonPrefix(from, to) ==
    IF Len(from) > 0 /\ Len(to) > 0 /\ from[1] = to[1]
    THEN LET r == CommonPrefix(Tail(from), Tail(to))
         IN [common |-> <<from[1]>> \o r.common, from |-> r.from, to |-> r.to]
    ELSE [common |-> <<>>, from |-> from, to |-> to]

(***************************************************************************)
(* OperationSet.reformat: one case per operation key.  this is the set     *)
(* that compiles; h is read for the arrays inside a payload.               *)
(***************************************************************************)
IOE == "InvalidOperationError"

\* Object.keys(null) throws
NullKeys(p, body) == IF p.t = "null" THEN Failed(<<>>, "TypeError") ELSE body

\* case '$set', lines 177-190
reformat_set(h, this, p) ==
    IF TypeOfP(p) # "object" \/ IsArrayP(h, p) THEN Failed(<<>>, IOE)
    ELSE NullKeys(p, ForEach(EntriesP(h, p), LAMBDA e :
            LET fieldArr == parsePath(e.k)
            IN Pushed(<<Step("$set",
                             IF Len(fieldArr) = 0 THEN <<>> ELSE Front(fieldArr),
                             <<IF Len(fieldArr) = 0 THEN Undef ELSE Str(Last(fieldArr)), e.v>>,
                             this)>>)))

\* case '$unset', lines 201-218
reformat_unset(h, this, p) ==
    LET tmp == IF p.t = "string" THEN <<p>> ELSE ElemsP(h, p)
    IN IF p.t = "string" \/ (IsArrayP(h, p) /\ \A i \in 1..Len(ElemsP(h, p)) :
                                                  ElemsP(h, p)[i].t = "string")
       THEN ForEach(tmp, LAMBDA field :
               LET fieldArr == parsePath(field.s)
               IN Pushed(<<Step("$unset",
                                IF Len(fieldArr) = 0 THEN <<>> ELSE Front(fieldArr),
                                <<IF Len(fieldArr) = 0 THEN Undef ELSE Str(Last(fieldArr))>>,
                                this)>>))
       ELSE Failed(<<>>, IOE)

\* case '$tag', lines 219-223
reformat_tag(h, this, p) ==
    IF p.t # "string" THEN Failed(<<>>, IOE) ELSE Pushed(<<>>)

\* case '$move', case '$copy', lines 233-259
reformat_move(h, this, key, p) ==
    IF TypeOfP(p) # "object" THEN Failed(<<>>, IOE)
    ELSE NullKeys(p, ForEach(EntriesP(h, p), LAMBDA e :
            IF e.v.t # "string" THEN Failed(<<>>, IOE)
            ELSE LET c == CommonPrefix(parsePath(e.k), parsePath(e.v.s))
                 IN Pushed(<<Step(key, c.common, <<c.from, c.to>>, this)>>)))

\* $cast compiled with no look at its payload
reformat_cast_unchecked(h, this, p) ==
    ForEach(EntriesP(h, p), LAMBDA e : Pushed(<<Step("$cast", parsePath(e.k), <<e.v>>, this)>>))

\* case '$cast', lines 268-282
reformat_cast(h, this, p) ==
    IF TypeOfP(p) # "object" THEN Failed(<<>>, IOE)
    ELSE NullKeys(p, ForEach(EntriesP(h, p), LAMBDA e :
            IF e.v \notin TYPES THEN Failed(<<>>, IOE)
            ELSE Pushed(<<Step("$cast", parsePath(e.k), <<e.v>>, this)>>)))

\* case '$wrap', lines 293-311
reformat_wrap(h, this, p) ==
    LET tmp == IF p.t = "string" \/ IsArrayP(h, p) THEN PObj(<<KV(".", p)>>) ELSE p
    IN IF ~(p.t = "string" \/ IsArrayP(h, p)) /\ TypeOfP(p) # "object"
       THEN Failed(<<>>, IOE)
       ELSE NullKeys(tmp, ForEach(EntriesP(h, tmp), LAMBDA e :
               IF e.v.t # "string" /\ ~IsArrayP(h, e.v) THEN Failed(<<>>, IOE)
               ELSE Pushed(<<Step("$wrap", parsePath(e.k), <<e.v>>, this)>>)))

\* case '$map', lines 325-339
reformat_map(h, this, p) ==
    IF TypeOfP(p) # "object" THEN Failed(<<>>, IOE)
    ELSE NullKeys(p, ForEach(EntriesP(h, p), LAMBDA e :
            IF TypeOfP(e.v) # "object" THEN Failed(<<>>, IOE)
            ELSE Pushed(<<Step("$map", parsePath(e.k), <<e.v>>, this)>>)))

\* case '$func', lines 346-364
reformat_func(h, this, p) ==
    LET tmp == IF p.t = "function" THEN PObj(<<KV(".", p)>>) ELSE p
    IN IF p.t # "function" /\ TypeOfP(p) # "object"
       THEN Failed(<<>>, IOE)
       ELSE NullKeys(tmp, ForEach(EntriesP(h, tmp), LAMBDA e :
               IF e.v.t # "function" THEN Failed(<<>>, IOE)
               ELSE Pushed(<<Step("$func", parsePath(e.k), <<e.v>>, this)>>)))

\* case '$model', lines 387-415 (the warning of lines 405-407 changes nothing)
reformat_model(h, this, p) ==
    LET tmp == IF p.t = "string" \/ IsArrayP(h, p) THEN PObj(<<KV(".", p)>>) ELSE p
    IN IF ~(p.t = "string" \/ IsArrayP(h, p)) /\ TypeOfP(p) # "object"
       THEN Failed(<<>>, IOE)
       ELSE NullKeys(tmp, ForEach(EntriesP(h, tmp), LAMBDA e :
               IF e.v.t = "string" \/ (IsArrayP(h, e.v) /\ \A i \in 1..Len(ElemsP(h, e.v)) :
                                                          ElemsP(h, e.v)[i].t = "string")
               THEN LET models == IF e.v.t = "string" THEN <<e.v>> ELSE ElemsP(h, e.v)
                    IN Pushed([i \in 1..Len(models) |->
                                 Step("$model", parsePath(e.k), <<models[i]>>, this)])
               ELSE Failed(<<>>, IOE)))

\* the switch of lines 168-418
reformat_key(h, this, key, p) ==
    CASE key = "$set" -> reformat_set(h, this, p)
      [] key = "$unset" -> reformat_unset(h, this, p)
      [] key = "$tag" -> reformat_tag(h, this, p)
      [] key \in {"$move", "$copy"} -> reformat_move(h, this, key, p)
      [] key = "$cast" -> reformat_cast(h, this, p)
      [] key = "$wrap" -> reformat_wrap(h, this, p)
      [] key = "$map" -> reformat_map(h, this, p)
      [] key = "$func" -> reformat_func(h, this, p)
      [] key = "$model" -> reformat_model(h, this, p)
      [] OTHER -> Failed(<<>>, "FormattingError")

\* one record with its keys compiled from the last one written to the first
reformat_record_backwards(h, this, ops) ==
    IF TypeOfP(ops) # "object" THEN Failed(<<>>, IOE)
    ELSE ForEach(Reversed(EntriesP(h, ops)), LAMBDA e : reformat_key(h, this, e.k, e.v))

\* lines 161-166: one record; its keys are compiled in the order for..in
\* enumerates them, which is the order they were written in
reformat_record(h, this, ops) ==
    IF TypeOfP(ops) # "object" THEN Failed(<<>>, IOE)
    ELSE ForEach(EntriesP(h, ops), LAMBDA e : reformat_key(h, this, e.k, e.v))

\* OperationSet.reformat: the new __operations, and the error thrown if any;
\* __operations is emptied first and keeps what was pushed before a throw
reformat(h, this, operations) ==
    ForEach(operations, LAMBDA ops : reformat_record(h, this, ops))

(***************************************************************************)
(* Running the compiled steps.  ss is the collection of Operation Sets     *)
(* (ss[id].compiled is __operations, ss[id].models the registry the set    *)
(* refers to) and rg the registries (rg[r][name] is the id of the set      *)
(* registered under name, or 0 for an entry that is no OperationSet).      *)
(* depth is what is left of the call stack for nested process calls.       *)
(***************************************************************************)
\* nested process calls before the call stack is exhausted
MaxStack == 3

RECURSIVE applyOperationAt(_, _, _, _, _, _, _)
RECURSIVE MapElements(_, _, _, _, _, _, _, _, _)
RECURSIVE ProcessFrom(_, _, _, _, _, _, _)

\* the loop of process run from the last step to the first
process_backwards(ss, rg, h, id, obj, depth) ==
    ProcessFrom(ss, rg, h, Reversed(ss[id].compiled), 1, obj, depth)

\* what a call leaves when its changes are undone as it throws
Undone(h, r) == IF r.err # "none" THEN Throw(h, r.err) ELSE r

\* a process that undoes the changes of the steps that completed when a step throws
process_atomic(ss, rg, h, id, obj, depth) ==
    Undone(h, ProcessFrom(ss, rg, h, ss[id].compiled, 1, obj, depth))

\* OperationSet.process
process(ss, rg, h, id, obj, depth) ==
    ProcessFrom(ss, rg, h, ss[id].compiled, 1, obj, depth)

\* the registry of the bridge as its constructor leaves it: the names of the
\* procedures it was given, and "raw", an entry that is no OperationSet
Registry == ("m1" :> 1) @@ ("m2" :> 2) @@ ("m3" :> 3) @@ ("raw" :> 0)

\* a $model that leaves the value alone when the name is not registered
op_model_lenient(ss, rg, h, obj, model, parentOpSet, depth) ==
    LET models == rg[ss[parentOpSet].models]
    IN IF ~(model.s \in DOMAIN models /\ models[model.s] # 0)
       THEN Ret(h, obj)
       ELSE IF depth = 0 THEN Throw(h, "RangeError")
       ELSE process(ss, rg, h, models[model.s], obj, depth - 1)

\* a $model that looks the name up in a copy of the registry made when the
\* bridge was constructed
op_model_stale(ss, rg, h, obj, model, parentOpSet, depth) ==
    LET models == Registry
    IN IF ~(model.s \in DOMAIN models /\ models[model.s] # 0)
       THEN Throw(h, IOE)
       ELSE IF depth = 0 THEN Throw(h, "RangeError")
       ELSE process(ss, rg, h, models[model.s], obj, depth - 1)

\* a $model that runs the set that holds it in the place of the named one
op_model_self(ss, rg, h, obj, model, parentOpSet, depth) ==
    LET models == rg[ss[parentOpSet].models]
    IN IF ~(model.s \in DOMAIN models /\ models[model.s] # 0)
       THEN Throw(h, IOE)
       ELSE IF depth = 0 THEN Throw(h, "RangeError")
       ELSE process(ss, rg, h, parentOpSet, obj, depth - 1)

\* module.exports.$model
op_model(ss, rg, h, obj, model, parentOpSet, depth) ==
    LET models == rg[ss[parentOpSet].models]
    IN IF ~(model.s \in DOMAIN models /\ models[model.s] # 0)
       THEN Throw(h, IOE)
       ELSE IF depth = 0 THEN Throw(h, "RangeError")
       ELSE process(ss, rg, h, models[model.s], obj, depth - 1)

\* module.exports[opSet.operation](obj, ...args)
CallOperation(ss, rg, h, step, obj, depth) ==
    CASE step.operation = "$set" -> op_set(h, obj, step.args[1], step.args[2])
      [] step.operation = "$unset" -> op_unset(h, obj, step.args[1])
      [] step.operation = "$move" -> op_move(h, obj, step.args[1], step.args[2])
      [] step.operation = "$copy" -> op_copy(h, obj, step.args[1], step.args[2], TRUE)
      [] step.operation = "$cast" -> op_cast(h, obj, step.args[1])
      [] step.operation = "$wrap" -> op_wrap(h, obj, step.args[1])
      [] step.operation = "$map" -> op_map(h, obj, step.args[1])
      [] step.operation = "$func" -> op_func(h, obj, step.args[1])
      [] step.operation = "$model" ->
            op_model(ss, rg, h, obj, step.args[1], step.this, depth)

\* obj.map(o => applyOperationAt(op, o, keys, args)): a new array
MapElements(ss, rg, h, step, elems, i, out, keys, depth) ==
    IF i > Len(elems) THEN Ret(Append(h, ArrCell(out)), Ref(Len(h) + 1))
    ELSE Then(applyOperationAt(ss, rg, h, step, elems[i], keys, depth), LAMBDA r :
              MapElements(ss, rg, r.h, step, elems, i + 1, Append(out, r.v), keys, depth))

\* OperationSet.applyOperationAt
applyOperationAt(ss, rg, h, step, obj, keys, depth) ==
    IF TypeOf(h, obj) # "object" /\ Len(keys) > 0 THEN Ret(h, obj)
    ELSE IF Len(keys) > 0 /\ keys[1] = "$" /\ IsArray(h, obj)
    THEN MapElements(ss, rg, h, step, h[obj.n].e, 1, <<>>, Tail(keys), depth)
    ELSE IF Len(keys) = 0
    THEN CallOperation(ss, rg, h, step, obj, depth)
    ELSE IF ~IsRef(obj) THEN Throw(h, "TypeError")
    ELSE Then(applyOperationAt(ss, rg, h, step, GetKey(h, obj.n, keys[1]),
                               Tail(keys), depth),
              LAMBDA r : Ret(PutKey(r.h, obj.n, keys[1], r.v), obj))

\* the loop of process, from step i on
ProcessFrom(ss, rg, h, steps, i, obj, depth) ==
    IF i > Len(steps) THEN Ret(h, obj)
    ELSE Then(applyOperationAt(ss, rg, h, steps[i], obj, steps[i].field, depth),
              LAMBDA r : ProcessFrom(ss, rg, r.h, steps, i + 1, r.v, depth))

(***************************************************************************)
(* The methods of OperationSet on the list of records.                     *)
(***************************************************************************)
\* OperationSet.getIndexByTag, lines 98-110: the scan from the last record down
RECURSIVE ScanTags(_, _, _)
ScanTags(operations, tag, i) ==
    IF i < 1 THEN -1
    ELSE IF TagOf(operations[i]) = tag THEN i - 1
    ELSE ScanTags(operations, tag, i - 1)

\* the index is counted from 0, as in the source
getIndexByTag(operations, tag) ==
    IF tag.t # "string" THEN [v |-> -1, err |-> "TypeError"]
    ELSE [v |-> ScanTags(operations, tag, Len(operations)), err |-> "none"]

\* this.operations[id]
ElementAt(operations, id) ==
    IF id >= 0 /\ id < Len(operations) THEN operations[id + 1] ELSE Undef

\* OperationSet.get, lines 80-88
get(operations, id) ==
    CASE id.t = "string" ->
            [v |-> ElementAt(operations, getIndexByTag(operations, id).v), err |-> "none"]
      [] id.t = "number" -> [v |-> ElementAt(operations, id.n), err |-> "none"]
      [] OTHER -> [v |-> Undef, err |-> "TypeError"]

\* Array.prototype.splice(start, 0, ...items) for start >= 0
SpliceIn(operations, start, items) ==
    LET at == IF start > Len(operations) THEN Len(operations) ELSE start
    IN SubSeq(operations, 1, at) \o items \o SubSeq(operations, at + 1, Len(operations))

\* Array.prototype.splice(start, 1) for start >= 0
SpliceOut(operations, start) ==
    IF start >= Len(operations) THEN operations
    ELSE SubSeq(operations, 1, start) \o SubSeq(operations, start + 2, Len(operations))

\* a || b
OrElse(a, b) == IF Falsy(a) THEN b ELSE a

\* what a method that ends in reformat leaves: the list, __operations and the error
Reformatted(operations, r) ==
    [operations |-> operations, compiled |-> r.steps, err |-> r.err]

\* an add that appends the records and leaves __operations as it was
add_stale(h, this, set, newOps, before, after, at) ==
    [operations |-> set.operations \o newOps, compiled |-> set.compiled, err |-> "none"]

\* OperationSet.add, lines 37-70.  An absent option is undefined.  The outcome:
\* the operations list and __operations the call leaves, and the error thrown
add(h, this, set, newOps, before, after, at) ==
    IF \/ at.t \notin {"null", "undefined"} /\ at.t # "number"
       \/ ~Falsy(after) /\ after.t # "string"
       \/ ~Falsy(before) /\ before.t # "string"
    THEN [operations |-> set.operations, compiled |-> set.compiled, err |-> "TypeError"]
    ELSE LET found == IF at.t \notin {"null", "undefined"} THEN at.n
                      ELSE IF ~Falsy(after) \/ ~Falsy(before)
                           THEN getIndexByTag(set.operations, OrElse(after, before)).v
                           ELSE -1
             missing == /\ at.t \in {"null", "undefined"}
                        /\ ~Falsy(after) \/ ~Falsy(before)
                        /\ found = -1
             operations == IF found >= 0
                           THEN IF ~Falsy(after)
                                THEN SpliceIn(set.operations, found + 1, newOps)
                                ELSE SpliceIn(set.operations, found, newOps)
                           ELSE set.operations \o newOps
         IN IF missing
            THEN [operations |-> set.operations, compiled |-> set.compiled,
                  err |-> "FormattingError"]
            ELSE Reformatted(operations, reformat(h, this, operations))

\* OperationSet.remove, lines 432-446.  The outcome also has the value returned
Removed(operations, r, removed) ==
    [operations |-> operations, compiled |-> r.steps,
     v |-> IF r.err = "none" THEN removed ELSE Undef, err |-> r.err]

remove(h, this, set, id) ==
    IF id.t \notin {"string", "number"}
    THEN [operations |-> set.operations, compiled |-> set.compiled, v |-> Undef,
          err |-> "TypeError"]
    ELSE LET index == IF id.t = "string" THEN getIndexByTag(set.operations, id).v ELSE id.n
             operations == IF index >= 0 THEN SpliceOut(set.operations, index)
                           ELSE set.operations
         IN Removed(operations, reformat(h, this, operations),
                    IF index >= 0 THEN ElementAt(set.operations, index) ELSE Undef)

(***************************************************************************)
(* Evaluating the literal of a record: the objects and arrays written      *)
(* inside its payloads are allocated.                                      *)
(***************************************************************************)
RECURSIVE AllocValues(_, _, _, _)
\* allocates the values of the entries (or elements) vs from i on; Val(x) reads
\* the literal of one of them and With(x, v) puts the allocated value back
AllocValues(h, vs, i, isEntries) ==
    IF i > Len(vs) THEN [h |-> h, vs |-> vs]
    ELSE LET r == Alloc(h, IF isEntries THEN vs[i].v ELSE vs[i])
         IN AllocValues(r.h, [vs EXCEPT ![i] = IF isEntries THEN KV(vs[i].k, r.v) ELSE r.v],
                        i + 1, isEntries)

\* one payload
AllocPayload(h, p) ==
    CASE p.t = "object" -> LET r == AllocValues(h, p.ents, 1, TRUE)
                           IN [h |-> r.h, v |-> PObj(r.vs)]
      [] p.t = "array" -> LET r == AllocValues(h, p.l, 1, FALSE)
                          IN [h |-> r.h, v |-> PArr(r.vs)]
      [] OTHER -> [h |-> h, v |-> p]

RECURSIVE AllocEntries(_, _, _)
AllocEntries(h, ents, i) ==
    IF i > Len(ents) THEN [h |-> h, v |-> ents]
    ELSE LET r == AllocPayload(h, ents[i].v)
         IN AllocEntries(r.h, [ents EXCEPT ![i] = KV(ents[i].k, r.v)], i + 1)

\* one record
AllocRecord(h, rec) ==
    IF rec.t # "object" THEN [h |-> h, v |-> rec]
    ELSE LET r == AllocEntries(h, rec.ents, 1)
         IN [h |-> r.h, v |-> PObj(r.v)]

\* a list of records
RECURSIVE AllocRecords(_, _, _)
AllocRecords(h, recs, i) ==
    IF i > Len(recs) THEN [h |-> h, v |-> recs]
    ELSE LET r == AllocRecord(h, recs[i])
         IN AllocRecords(r.h, [recs EXCEPT ![i] = r.v], i + 1)

(***************************************************************************)
(* Cells that no Operation Set can reach (the input of a finished process  *)
(* call, the objects it made on the way) cannot influence a later call:    *)
(* they are emptied, and dropped at the end of the heap.                   *)
(***************************************************************************)
\* the addresses the values of a sequence refer to
RefsIn(vs) == {vs[i].n : i \in {j \in 1..Len(vs) : vs[j].t = "ref"}}

RefsOfCell(c) == RefsIn(c.e) \cup {c.f[k].n : k \in {x \in DOMAIN c.f : c.f[x].t = "ref"}}

\* the addresses a payload refers to
RefsOfPayload(p) ==
    CASE p.t = "object" -> {p.ents[i].v.n : i \in {j \in 1..Len(p.ents) : p.ents[j].v.t = "ref"}}
      [] p.t = "array" -> RefsIn(p.l)
      [] p.t = "ref" -> {p.n}
      [] OTHER -> {}

RefsOfRecord(rec) ==
    IF rec.t # "object" THEN {}
    ELSE UNION {RefsOfPayload(rec.ents[i].v) : i \in 1..Len(rec.ents)}

RefsOfSets(ss) ==
    UNION {UNION {RefsOfRecord(ss[id].operations[i]) : i \in 1..Len(ss[id].operations)} :
              id \in 1..Len(ss)}

RECURSIVE Reach(_, _, _)
Reach(h, todo, seen) ==
    IF todo = {} THEN seen
    ELSE LET a == CHOOSE x \in todo : TRUE
             more == RefsOfCell(h[a]) \ (seen \cup todo)
         IN Reach(h, (todo \ {a}) \cup more, seen \cup {a})

Collect(h, ss) ==
    LET live == Reach(h, RefsOfSets(ss), {})
        top == IF live = {} THEN 0 ELSE CHOOSE a \in live : \A b \in live : b <= a
    IN [a \in 1..top |-> IF a \in live THEN h[a] ELSE ObjCell(NoKeys)]

(***************************************************************************)
(* The state.                                                              *)
(***************************************************************************)
VARIABLES
    heap,   \* the objects and arrays that exist
    sets,   \* the Operation Sets: operations, compiled (__operations), models
    regs,   \* the registries: name -> id of the registered set
    main,   \* the id of the Operation Set under study, 0 before it is constructed
    life,   \* "new", then "ready", or "failed" when the constructor threw
    calls,  \* the number of process calls made
    bridges, \* Versioner.bridges: the bridges of the versioner, in its order
    last    \* the last call: its name, arguments, error and returned value

vars == <<heap, sets, regs, main, life, calls, bridges, last>>

NoCall == [call |-> "none", err |-> "none", newOps |-> <<>>, before |-> Undef,
           after |-> Undef, at |-> Undef, id |-> Undef, input |-> Undef, ret |-> Undef]

\* new OperationSet(ops, models): the outcome of the constructor, lines 19-24
Constructed(ops, models, r) ==
    [set |-> [operations |-> ops, compiled |-> r.steps, models |-> models],
     err |-> r.err]

\* a constructor that does not call reformat
construct_unchecked(h, this, ops, models) == Constructed(ops, models, Pushed(<<>>))

construct(h, this, ops, models) == Constructed(ops, models, reformat(h, this, ops))

\* the procedures registered before the set under study is made:
\*   m1: [{ $wrap: 'x' }]    m2: [{ $wrap: [] }]    m3: [{ $model: 'm1' }]
\* and "raw", an entry that is no OperationSet
Procedures ==
    <<construct(<<>>, 1, <<PObj(<<KV("$wrap", Str("x"))>>)>>, 1).set,
      construct(<<>>, 2, <<PObj(<<KV("$wrap", PArr(<<>>))>>)>>, 1).set,
      construct(<<>>, 3, <<PObj(<<KV("$model", Str("m1"))>>)>>, 1).set>>

\* the registry of a set that is constructed without one: models = {}
NoModels == <<>>

\* registry[name] = id
PutName(registry, name, id) ==
    [n \in DOMAIN registry \cup {name} |-> IF n = name THEN id ELSE registry[n]]

\* the procedures setProcedures may register after construction
MaxProcs == 2

InitWith ==
    /\ heap = <<>>
    /\ sets = Procedures
    /\ regs = <<Registry, NoModels>>
    /\ main = 0
    /\ life = "new"
    /\ calls = 0
    /\ bridges = <<>>
    /\ last = NoCall

\* new OperationSet(ops, registry)
Construct(ops) ==
    /\ life = "new"
    /\ \E a \in {AllocRecords(heap, ops, 1)} :
       \E c \in {construct(a.h, Len(sets) + 1, a.v, 1)} :
          /\ heap' = a.h
          /\ IF c.err = "none"
             THEN /\ sets' = Append(sets, c.set)
                  /\ main' = Len(sets) + 1
                  /\ life' = "ready"
             ELSE /\ life' = "failed"
                  /\ UNCHANGED <<sets, main>>
          /\ last' = [NoCall EXCEPT !.call = "new", !.err = c.err, !.newOps = ops]
    /\ UNCHANGED <<regs, calls, bridges>>

\* set.add(newOps, { before, after, at })
Add(newOps, before, after, at) ==
    /\ life = "ready"
    /\ Len(sets[main].operations) + Len(newOps) <= MaxOps
    /\ \E a \in {AllocRecords(heap, newOps, 1)} :
       \E r \in {add(a.h, main, sets[main], a.v, before, after, at)} :
          /\ heap' = a.h
          /\ sets' = [sets EXCEPT ![main].operations = r.operations,
                                  ![main].compiled = r.compiled]
          /\ last' = [NoCall EXCEPT !.call = "add", !.err = r.err, !.newOps = a.v,
                                    !.before = before, !.after = after, !.at = at]
    /\ UNCHANGED <<regs, main, life, calls, bridges>>

\* set.remove(id)
Remove(id) ==
    /\ life = "ready"
    /\ \E r \in {remove(heap, main, sets[main], id)} :
          /\ sets' = [sets EXCEPT ![main].operations = r.operations,
                                  ![main].compiled = r.compiled]
          /\ last' = [NoCall EXCEPT !.call = "remove", !.err = r.err, !.id = id,
                                    !.ret = r.v]
    /\ UNCHANGED <<heap, regs, main, life, calls, bridges>>

\* set.get(id)
Get(id) ==
    /\ life = "ready"
    /\ LET r == get(sets[main].operations, id)
       IN last' = [NoCall EXCEPT !.call = "get", !.err = r.err, !.id = id, !.ret = r.v]
    /\ UNCHANGED <<heap, sets, regs, main, life, calls, bridges>>

\* set.getIndexByTag(tag)
GetIndexByTag(tag) ==
    /\ life = "ready"
    /\ LET r == getIndexByTag(sets[main].operations, tag)
       IN last' = [NoCall EXCEPT !.call = "getIndexByTag", !.err = r.err, !.id = tag,
                                 !.ret = Num(r.v)]
    /\ UNCHANGED <<heap, sets, regs, main, life, calls, bridges>>

\* set.process(input), the input being a literal the caller evaluates
Process(input) ==
    /\ life = "ready"
    /\ calls < MaxCalls
    /\ \E a \in {Alloc(heap, input)} :
       \E r \in {process(sets, regs, a.h, main, a.v, MaxStack)} :
          /\ heap' = Collect(r.h, sets)
          /\ last' = [NoCall EXCEPT !.call = "process", !.err = r.err, !.input = input,
                                    !.ret = Deep(r.h, r.v)]
    /\ calls' = calls + 1
    /\ UNCHANGED <<sets, regs, main, life, bridges>>

\* bridge.setProcedures(procedure, op), op an operations hash or list: the new
\* set is constructed without a registry and put into the registry of the bridge
SetProcedures(procedure, op) ==
    /\ Len(sets) - Len(Procedures) - (IF main = 0 THEN 0 ELSE 1) < MaxProcs
    /\ \E a \in {AllocRecords(heap, op, 1)} :
       \E c \in {construct(a.h, Len(sets) + 1, a.v, 2)} :
          /\ heap' = a.h
          /\ IF c.err = "none"
             THEN /\ sets' = Append(sets, c.set)
                  /\ regs' = [regs EXCEPT ![1] = PutName(@, procedure, Len(sets) + 1)]
             ELSE UNCHANGED <<sets, regs>>
          /\ last' = [NoCall EXCEPT !.call = "setProcedures", !.err = c.err,
                                    !.id = Str(procedure), !.newOps = op]
    /\ UNCHANGED <<main, life, calls, bridges>>

\* Bridge.js, lines 35-38: every entry of the procedures hash, from the i-th
\* on, is replaced by an Operation Set made of it, with the hash as registry
RECURSIVE Instantiated(_, _, _, _, _)
\* the set c made of the i-th entry, whose records are in the heap h
InstantiatedSet(h, ss, registry, procedures, i, c) ==
    IF c.err # "none"
    THEN [h |-> h, sets |-> ss, registry |-> registry, err |-> c.err]
    ELSE Instantiated(h, Append(ss, c.set), PutName(registry, procedures[i].k, Len(ss) + 1),
                      procedures, i + 1)

InstantiatedRecords(ss, registry, procedures, i, a) ==
    InstantiatedSet(a.h, ss, registry, procedures, i, construct(a.h, Len(ss) + 1, a.v, 1))

Instantiated(h, ss, registry, procedures, i) ==
    IF i > Len(procedures) THEN [h |-> h, sets |-> ss, registry |-> registry, err |-> "none"]
    ELSE InstantiatedRecords(ss, registry, procedures, i, AllocRecords(h, procedures[i].v, 1))

\* new Bridge({ version, procedures }) for the entries that the hash has
\* besides m1, m2 and m3 (the operations of a procedure are looked at when it
\* runs, so a procedure may name one that is instantiated after it, or itself)
BridgeProcedures(procedures) ==
    /\ Len(sets) - Len(Procedures) - (IF main = 0 THEN 0 ELSE 1) = 0
    /\ Len(procedures) <= MaxProcs
    /\ \E r \in {Instantiated(heap, sets, regs[1], procedures, 1)} :
          /\ heap' = r.h
          /\ sets' = r.sets
          /\ regs' = [regs EXCEPT ![1] = r.registry]
          /\ last' = [NoCall EXCEPT !.call = "bridge", !.err = r.err]
    /\ UNCHANGED <<main, life, calls, bridges>>

(***************************************************************************)
(* The Bridge that keeps its registry in models and a list of gaps.  One   *)
(* gap is followed, and main is the Operation Set of its response body     *)
(* (the eight sets of a gap are made and reset alike).  life tells what    *)
(* exists: "new" nothing, "gap" a gap and no bridge, "bridge" a bridge and *)
(* no gap, "detached" both but the gap is not in bridge.gaps, "ready" the  *)
(* gap is in bridge.gaps.                                                  *)
(***************************************************************************)
\* new Gap({ bridge, response: { body: ops } }): with a bridge the sets of the gap
\* are given bridge.models, without one an object {} of their own
NewGap(ops, withBridge) ==
    /\ \/ life = "new" /\ ~withBridge
       \/ life = "bridge"
    /\ \E a \in {AllocRecords(heap, ops, 1)} :
       \E c \in {construct(a.h, Len(sets) + 1, a.v, IF withBridge THEN 1 ELSE 2)} :
          /\ heap' = a.h
          /\ IF c.err = "none"
             THEN /\ sets' = Append(sets, c.set)
                  /\ main' = Len(sets) + 1
                  /\ life' = IF life = "new" THEN "gap" ELSE "detached"
             ELSE /\ life' = "failed"
                  /\ UNCHANGED <<sets, main>>
          /\ last' = [NoCall EXCEPT !.call = "newGap", !.err = c.err, !.newOps = ops]
    /\ UNCHANGED <<regs, calls, bridges>>

\* new Bridge({ version, models, gaps }): the models are instantiated (Procedures),
\* and a gap of gaps gets its bridge field set and is pushed on this.gaps
NewBridge(withGap) ==
    /\ \/ life = "new" /\ ~withGap
       \/ life = "gap"
    /\ life' = IF life = "new" THEN "bridge" ELSE IF withGap THEN "ready" ELSE "detached"
    /\ last' = [NoCall EXCEPT !.call = "newBridge"]
    /\ UNCHANGED <<heap, sets, regs, main, calls, bridges>>

\* bridge.addGap(gap): gap.resetModels(this.models), then the push on this.gaps
AddGap ==
    /\ life = "detached"
    /\ sets' = [sets EXCEPT ![main].models = 1]
    /\ life' = "ready"
    /\ last' = [NoCall EXCEPT !.call = "addGap"]
    /\ UNCHANGED <<heap, regs, main, calls, bridges>>

\* bridge.setModels(procName, op): the new set is constructed without a registry
\* and put into this.models, then every gap of this.gaps is reset to this.models
SetModels(procName, op) ==
    /\ life \in {"bridge", "detached", "ready"}
    /\ Len(sets) - Len(Procedures) - (IF main = 0 THEN 0 ELSE 1) < MaxProcs
    /\ \E a \in {AllocRecords(heap, op, 1)} :
       \E c \in {construct(a.h, Len(sets) + 1, a.v, 2)} :
          /\ heap' = a.h
          /\ IF c.err = "none"
             THEN /\ sets' = IF life = "ready"
                             THEN Append([sets EXCEPT ![main].models = 1], c.set)
                             ELSE Append(sets, c.set)
                  /\ regs' = [regs EXCEPT ![1] = PutName(@, procName, Len(sets) + 1)]
             ELSE UNCHANGED <<sets, regs>>
          /\ last' = [NoCall EXCEPT !.call = "setModels", !.err = c.err,
                                    !.id = Str(procName), !.newOps = op]
    /\ UNCHANGED <<main, life, calls, bridges>>

(***************************************************************************)
(* The records, options and inputs the model draws from.                   *)
(***************************************************************************)
\* { $set: { a: {} }, $move: { 'b.c': 'a.c' } }
RecSetMove ==
    PObj(<<KV("$set", PObj(<<KV("a", TObj(NoKeys))>>)),
           KV("$move", PObj(<<KV("b.c", Str("a.c"))>>))>>)
\* { $unset: 'b', $set: { b: 1 } }, the key order of test/gap.js:23-27
RecUnsetSet ==
    PObj(<<KV("$unset", Str("b")), KV("$set", PObj(<<KV("b", Num(1))>>))>>)
\* { $model: { '.': ['m1', 'm2'] } }
RecModels == PObj(<<KV("$model", PObj(<<KV(".", TArr(<<Str("m1"), Str("m2")>>))>>))>>)
\* { $tag: 't', $cast: { a: 'number' } }
RecCast == PObj(<<KV("$tag", Str("t")), KV("$cast", PObj(<<KV("a", Str("number"))>>))>>)
\* { $cast: { a: 'int' } }: a known key with a type name that is none of TYPES
RecBadCast == PObj(<<KV("$cast", PObj(<<KV("a", Str("int"))>>))>>)
\* { $set: 'str' }: a known key with a payload that is no object
RecBadSet == PObj(<<KV("$set", Str("str"))>>)
\* { $bogus: 1 }: a key outside the vocabulary
RecBogus == PObj(<<KV("$bogus", Num(1))>>)
\* { $model: 'nope' }: a name that is not registered
RecMissingModel == PObj(<<KV("$model", Str("nope"))>>)

Records ==
    {RecSetMove, RecUnsetSet, RecModels, RecCast, RecBadCast, RecBadSet, RecBogus,
     RecMissingModel}

\* the lists a set is constructed from
Lists == {<<>>} \cup {<<r>> : r \in Records} \cup {<<r, q>> : r \in Records, q \in Records}

\* { b: { c: 1 } }, { b: 0 }, { a: '6', b: 0 }
Inputs ==
    {TObj("b" :> TObj("c" :> Num(1))),
     TObj("b" :> Num(0)),
     TObj(("a" :> Str("6")) @@ ("b" :> Num(0)))}

\* The records of the specification of the list methods: tags that repeat, the
\* empty tag, no tag, and a key outside the vocabulary
\* { $tag: '', $unset: 'a' }
RecEmptyTag == PObj(<<KV("$tag", Str("")), KV("$unset", Str("a"))>>)
\* { $tag: 't', $unset: 'a' }
RecT1 == PObj(<<KV("$tag", Str("t")), KV("$unset", Str("a"))>>)
\* { $tag: 't', $unset: 'b' }
RecT2 == PObj(<<KV("$tag", Str("t")), KV("$unset", Str("b"))>>)
\* { $unset: 'c' }
RecNoTag == PObj(<<KV("$unset", Str("c"))>>)

\* the lists the set whose list is edited is constructed from
EditLists ==
    {<<>>, <<RecT1>>, <<RecT1, RecT2>>, <<RecEmptyTag, RecT1>>, <<RecT1, RecNoTag>>,
     <<RecNoTag, RecEmptyTag>>}

\* the lists of new records an add is given
NewOps == {<<RecNoTag>>, <<RecBogus>>, <<RecT2, RecNoTag>>}

Opt(before, after, at) == [before |-> before, after |-> after, at |-> at]

\* the options of add: none; one of before, after (a tag that records carry, the
\* empty tag, a tag no record carries) and at (-1 and the indices up to past the
\* end); and two or three of them together
Options ==
    {Opt(Undef, Undef, Undef)}
    \cup {Opt(Str(t), Undef, Undef) : t \in {"", "t", "z"}}
    \cup {Opt(Undef, Str(t), Undef) : t \in {"", "t", "z"}}
    \cup {Opt(Undef, Undef, Num(i)) : i \in -1..MaxOps}
    \cup {Opt(Undef, Str("t"), Num(i)) : i \in 0..1}
    \cup {Opt(Str("t"), Undef, Num(i)) : i \in 0..1}
    \cup {Opt(Str("t"), Str(""), Undef), Opt(Str(""), Str("t"), Undef),
          Opt(Str("z"), Str("t"), Undef), Opt(Str("t"), Str("t"), Num(0))}

\* the identifiers given to get and remove
Ids == {Str(""), Str("t"), Str("z")} \cup {Num(i) : i \in -1..MaxOps - 1}

\* { a: 1, b: 1, c: 1 }
EditInput == TObj(("a" :> Num(1)) @@ ("b" :> Num(1)) @@ ("c" :> Num(1)))

Init == InitWith

\* construction and process calls
Next ==
    \/ \E ops \in Lists : Construct(ops)
    \/ \E input \in Inputs : Process(input)

Spec == Init /\ [][Next]_vars

\* construction, then any sequence of calls of the list methods and of process
NextEdit ==
    \/ \E ops \in EditLists : Construct(ops)
    \/ \E newOps \in NewOps, o \in Options : Add(newOps, o.before, o.after, o.at)
    \/ \E id \in Ids : Remove(id)
    \/ \E id \in Ids : Get(id)
    \/ \E tag \in {Str(""), Str("t"), Str("z")} : GetIndexByTag(tag)
    \/ Process(EditInput)

SpecEdit == Init /\ [][NextEdit]_vars

\* The records of the specification of the registry
\* { $model: { 'b.c': 'nope' } }: a name that is not registered, at a nested path
RecNestedMissing == PObj(<<KV("$model", PObj(<<KV("b.c", Str("nope"))>>))>>)
\* { $model: 'p' }: a name only setProcedures registers
RecModelP == PObj(<<KV("$model", Str("p"))>>)
\* { $model: 'm3' }: a procedure of the constructor that invokes another
RecModelM3 == PObj(<<KV("$model", Str("m3"))>>)
\* { $cast: { 'a.b': 'number' } }
RecCastNested == PObj(<<KV("$cast", PObj(<<KV("a.b", Str("number"))>>))>>)
\* { $wrap: 'y' }
RecWrapY == PObj(<<KV("$wrap", Str("y"))>>)
\* { $set: { a: 1 } }, { $unset: 'b' }
RecSetA == PObj(<<KV("$set", PObj(<<KV("a", Num(1))>>))>>)
RecUnsetB == PObj(<<KV("$unset", Str("b"))>>)
\* { $model: 'm1' }
RecModelM1 == PObj(<<KV("$model", Str("m1"))>>)

\* the lists the set that holds the registry is constructed from
RegLists ==
    {<<RecMissingModel>>, <<RecNestedMissing>>, <<RecCastNested, RecMissingModel>>,
     <<RecModelP>>, <<RecModelM3>>, <<RecModels>>,
     <<RecSetA, RecMissingModel, RecUnsetB>>, <<RecSetA, RecModelP, RecUnsetB>>}

\* the names and operations given to setProcedures
RegNames == {"nope", "p", "m1"}
RegOps == {<<RecWrapY>>, <<RecModelM1>>, <<RecBogus>>}

\* { b: 0 }, { b: { c: 1 } }, { a: null }
RegInputs ==
    {TObj("b" :> Num(0)), TObj("b" :> TObj("c" :> Num(1))), TObj("a" :> Null)}

\* construction, then process calls while procedures are registered and replaced
NextReg ==
    \/ \E ops \in RegLists : Construct(ops)
    \/ \E name \in RegNames, op \in RegOps : SetProcedures(name, op)
    \/ \E input \in RegInputs : Process(input)

SpecReg == Init /\ [][NextReg]_vars

\* { $func: obj => { obj.marked = true; return obj } }, what setModels makes of a
\* function
RecFuncMark == PObj(<<KV("$func", Fn("mark"))>>)

\* the response body of the gap, and the names and operations given to setModels
GapLists == {<<RecModelM1>>, <<RecModelP>>, <<RecModels>>}
GapNames == {"p", "m1"}
GapOps == {<<RecWrapY>>, <<RecFuncMark>>}

\* a bridge and a gap made in either order, the gap given to the constructor of
\* the bridge or added to it, models set, and process calls of the set of the gap
NextGap ==
    \/ \E ops \in GapLists, withBridge \in BOOLEAN : NewGap(ops, withBridge)
    \/ \E withGap \in BOOLEAN : NewBridge(withGap)
    \/ AddGap
    \/ \E name \in GapNames, op \in GapOps : SetModels(name, op)
    \/ \E input \in RegInputs : Process(input)

SpecGap == Init /\ [][NextGap]_vars

\* The records of the specification of procedures that invoke procedures
\* { $model: 'q' }
RecModelQ == PObj(<<KV("$model", Str("q"))>>)
\* procedures hashes: p invokes itself; p and q invoke each other; p invokes q;
\* p invokes m3, which invokes m1; p invokes nothing
CycleHashes ==
    {<<KV("p", <<RecModelP>>)>>,
     <<KV("p", <<RecModelQ>>), KV("q", <<RecModelP>>)>>,
     <<KV("p", <<RecModelQ>>), KV("q", <<RecWrapY>>)>>,
     <<KV("p", <<RecModelM3>>)>>,
     <<KV("p", <<RecWrapY>>)>>}
\* the lists of the set that invokes them
CycleLists == {<<RecModelP>>, <<RecModelM3>>, <<RecSetA, RecModelP>>, <<RecModelM1, RecModelP>>}

\* a bridge with procedures, a set constructed on its registry, process calls
NextCycle ==
    \/ \E procedures \in CycleHashes : BridgeProcedures(procedures)
    \/ \E ops \in CycleLists : Construct(ops)
    \/ \E input \in RegInputs : Process(input)

SpecCycle == Init /\ [][NextCycle]_vars

\* The records of the specification of the built-in operations
Pair(from, to) == [from |-> from, to |-> to]
\* { $move: { from: to } }, { $copy: { from: to } }, { $unset: from }
Mv(p) == PObj(<<KV("$move", PObj(<<KV(p.from, Str(p.to))>>))>>)
Cp(p) == PObj(<<KV("$copy", PObj(<<KV(p.from, Str(p.to))>>))>>)
Un(path) == PObj(<<KV("$unset", Str(path))>>)

\* the pairs of paths of $move and $copy: apart, with a common root, under a
\* wildcard, equal, and one path the beginning of the other
Pairs ==
    {Pair("a", "b"), Pair("b.c", "a.c"), Pair("a.b", "a.c"), Pair("d.$.b", "d.$.c"),
     Pair("a", "a"), Pair("a.b", "a"), Pair("a", "a.b")}
\* pairs with a source segment between the shared beginning and the last one
DeepPairs == {Pair("b.c", "a.c"), Pair("a.b.c", "a.c")}
\* pairs with an empty destination, and with a destination that is the
\* beginning of the source
RootPairs == {Pair("a", ""), Pair("b.c", ".")}
UpPairs == {Pair("a.b", "a"), Pair("a.b.c", "a.b")}

\* { $map: { a: { 6: true } } }: a table with no '' entry
RecMap == PObj(<<KV("$map", PObj(<<KV("a", TObj("6" :> Bool(TRUE)))>>))>>)
\* { $map: { a: { '': 'default', 6: true } } }, the table of test/operations.js:96-99
RecMapDefault ==
    PObj(<<KV("$map", PObj(<<KV("a", TObj(("" :> Str("default")) @@ ("6" :> Bool(TRUE))))>>))>>)

\* { $wrap: { 'a.b': 'x' } }, { $set: { 'a.b': 1 } }, { $cast: { 'd.$.b': 'string' } }
RecWrapNested == PObj(<<KV("$wrap", PObj(<<KV("a.b", Str("x"))>>))>>)
RecSetNested == PObj(<<KV("$set", PObj(<<KV("a.b", Num(1))>>))>>)
RecCastWild == PObj(<<KV("$cast", PObj(<<KV("d.$.b", Str("string"))>>))>>)
\* { $set: { '.': 1 } }, { $set: { '': 1 } }, { $set: { a: {} } }
RecSetRoot == PObj(<<KV("$set", PObj(<<KV(".", Num(1))>>))>>)
RecSetEmpty == PObj(<<KV("$set", PObj(<<KV("", Num(1))>>))>>)
RecSetObject == PObj(<<KV("$set", PObj(<<KV("a", TObj(NoKeys))>>))>>)
\* { $set: { 'a.c': 2 } }, { $set: { 'b.c': 2 } }
RecSetAC == PObj(<<KV("$set", PObj(<<KV("a.c", Num(2))>>))>>)
RecSetBC == PObj(<<KV("$set", PObj(<<KV("b.c", Num(2))>>))>>)
\* { $set: { 'd.$.b': 'user' } }
RecSetWild == PObj(<<KV("$set", PObj(<<KV("d.$.b", Str("user"))>>))>>)

\* the lists a set of one built-in operation is constructed from
OpsLists ==
    {<<Mv(p)>> : p \in Pairs} \cup {<<RecMap>>, <<RecMapDefault>>, <<RecCast>>}
    \cup {<<RecCastNested>>, <<RecWrapNested>>, <<RecSetNested>>, <<Un("a.b.c")>>,
          <<RecCastWild>>, <<RecSetWild>>, <<RecSetRoot>>, <<RecSetA>>, <<RecSetObject>>}
    \cup {<<RecSetEmpty>>, <<Un("")>>, <<Un(".")>>}
    \cup {<<Cp(p)>> : p \in Pairs}
    \cup {<<Cp(Pair("b", "a")), RecSetAC>>, <<Cp(Pair("b", "a")), RecSetBC>>}
    \cup {<<Mv(p)>> : p \in DeepPairs} \cup {<<Cp(p)>> : p \in DeepPairs}
    \cup {<<Mv(p)>> : p \in RootPairs \cup UpPairs}
    \cup {<<Cp(p)>> : p \in RootPairs \cup UpPairs}

\* { a: '6', b: { c: 1 } }, { a: { b: { b: 1 } } }, { d: [{ b: 0, c: 1 }, { b: 1 }] },
\* { d: [{ b: 0, c: 1 }, 5] }, { d: [{ b: 0 }, null] }, { a: '6', d: [{ c: 1 }] },
\* { a: 'abc' }, { a: null }, { a: 5 }, {}, { '': 2, '.': 3 }, { b: 0 }, { b: null },
\* { a: { b: 0 } }, { a: null, b: { c: 1 } }, { a: [], b: { c: 1 } }, { b: { c: 1 } },
\* { a: { b: { c: 1 }, c: 2 }, b: 0 }
OpsInputs ==
    {TObj(("a" :> Str("6")) @@ ("b" :> TObj("c" :> Num(1)))),
     TObj("a" :> TObj("b" :> TObj("b" :> Num(1)))),
     TObj("d" :> TArr(<<TObj(("b" :> Num(0)) @@ ("c" :> Num(1))), TObj("b" :> Num(1))>>)),
     TObj("d" :> TArr(<<TObj(("b" :> Num(0)) @@ ("c" :> Num(1))), Num(5)>>)),
     TObj("d" :> TArr(<<TObj("b" :> Num(0)), Null>>)),
     TObj(("a" :> Str("6")) @@ ("d" :> TArr(<<TObj("c" :> Num(1))>>))),
     TObj("a" :> Str("abc")),
     TObj("a" :> Null),
     TObj("a" :> Num(5)),
     TObj(NoKeys),
     TObj(("" :> Num(2)) @@ ("." :> Num(3))),
     TObj("b" :> Num(0)),
     TObj("b" :> Null),
     TObj("a" :> TObj("b" :> Num(0))),
     TObj(("a" :> Null) @@ ("b" :> TObj("c" :> Num(1)))),
     TObj(("a" :> TArr(<<>>)) @@ ("b" :> TObj("c" :> Num(1)))),
     TObj("b" :> TObj("c" :> Num(1))),
     TObj(("a" :> TObj(("b" :> TObj("c" :> Num(1))) @@ ("c" :> Num(2)))) @@ ("b" :> Num(0)))}

\* construction of a set of one built-in operation, then process calls
NextOps ==
    \/ \E ops \in OpsLists : Construct(ops)
    \/ \E input \in OpsInputs : Process(input)

SpecOps == Init /\ [][NextOps]_vars

(***************************************************************************)
(* The Versioner and the versions of its bridges (src/index.js and         *)
(* src/lib/Bridge.js).  A bridge is its version string and the array       *)
(* versionSegments that its constructor parses out of it; compareVersions  *)
(* writes into the versionSegments of the bridge it is given.              *)
(***************************************************************************)
\* version.split('.').map(n => parseInt(n, 10)) on the version strings in use
SplitVersion(version) ==
    CASE version = "0.5" -> <<0, 5>>
      [] version = "1.0" -> <<1, 0>>
      [] version = "1.0.0" -> <<1, 0, 0>>
      [] version = "1.0.5" -> <<1, 0, 5>>
      [] version = "1.1" -> <<1, 1>>
      [] version = "2" -> <<2>>

\* new Bridge({ version })
NewBridgeOf(version) == [version |-> version, versionSegments |-> SplitVersion(version)]

\* the loop of compareVersions from index i (counted from 1): a segment that
\* vSegs lacks is written into it as 0 before it is compared
RECURSIVE CompareFrom(_, _, _)
CompareFrom(segs, vSegs, i) ==
    IF i > Len(segs) THEN [order |-> 0, vSegs |-> vSegs]
    ELSE IF i > Len(vSegs) THEN CompareFrom(segs, Append(vSegs, 0), i)
    ELSE IF segs[i] > vSegs[i] THEN [order |-> 1, vSegs |-> vSegs]
    ELSE IF segs[i] < vSegs[i] THEN [order |-> -1, vSegs |-> vSegs]
    ELSE CompareFrom(segs, vSegs, i + 1)

\* this.compareVersions(other) for a Bridge other: the order, and the
\* versionSegments it leaves in other
compareVersions(this, other) ==
    CompareFrom(this.versionSegments, other.versionSegments, 1)

\* the elements i-1 and i of arr exchanged
Exchanged(arr, i) == [arr EXCEPT ![i - 1] = arr[i], ![i] = arr[i - 1]]

\* Array.prototype.sort with (a, b) => a.compareVersions(b) as an insertion
\* sort.  An engine is free in the order it hands two elements to the
\* comparison: laterFirst tells whether a is the element that stands later
\* in the array (the merge sort of V8 7.0 and after) or earlier (the
\* insertion sort of the engines before).  Placed(arr, i, laterFirst, c) is
\* arr after the comparison c of the elements i-1 and i.
RECURSIVE Sink(_, _, _)
Placed(arr, i, laterFirst, c) ==
    IF laterFirst
    THEN IF c.order < 0
         THEN Sink(Exchanged([arr EXCEPT ![i - 1].versionSegments = c.vSegs], i), i - 1, laterFirst)
         ELSE [arr EXCEPT ![i - 1].versionSegments = c.vSegs]
    ELSE IF c.order > 0
         THEN Sink(Exchanged([arr EXCEPT ![i].versionSegments = c.vSegs], i), i - 1, laterFirst)
         ELSE [arr EXCEPT ![i].versionSegments = c.vSegs]

\* the element i of arr moved towards the front as far as the comparison says
Sink(arr, i, laterFirst) ==
    IF i = 1 THEN arr
    ELSE Placed(arr, i, laterFirst,
                IF laterFirst THEN compareVersions(arr[i], arr[i - 1])
                ELSE compareVersions(arr[i - 1], arr[i]))

RECURSIVE SortFrom(_, _, _)
SortFrom(arr, j, laterFirst) ==
    IF j > Len(arr) THEN arr
    ELSE SortFrom(Sink(arr, j, laterFirst), j + 1, laterFirst)

\* Versioner.addBridges(versions.map(version => new Bridge({ version })))
AddBridges(versions, laterFirst) ==
    /\ Len(bridges) + Len(versions) <= MaxBridges
    /\ bridges' = SortFrom(bridges \o [k \in 1..Len(versions) |-> NewBridgeOf(versions[k])],
                           2, laterFirst)
    /\ last' = [NoCall EXCEPT !.call = "addBridges", !.newOps = versions]
    /\ UNCHANGED <<heap, sets, regs, main, life, calls>>

\* the version strings of the bridges added
Versions == {"0.5", "1.0", "1.0.0", "1.0.5", "1.1", "2"}
\* the arrays given to addBridges
VersionLists == {<<v>> : v \in Versions} \cup {<<v, w>> : v, w \in Versions}

\* a versioner made without bridges, then addBridges calls
NextVer ==
    \E versions \in VersionLists, laterFirst \in BOOLEAN : AddBridges(versions, laterFirst)

SpecVer == Init /\ [][NextVer]_vars

(***************************************************************************)
(* What the claims speak of.                                               *)
(***************************************************************************)
\* the records of the set under study
Operations == sets[main].operations

\* a payload as a deep comparison sees it
DeepPayload(h, p) ==
    CASE p.t = "object" -> [i \in 1..Len(p.ents) |-> Deep(h, p.ents[i].v)]
      [] p.t = "array" -> [i \in 1..Len(p.l) |-> Deep(h, p.l[i])]
      [] OTHER -> <<Deep(h, p)>>

\* the payloads of the records of a list as a deep comparison sees them
DeepRecords(h, ops) ==
    [i \in 1..Len(ops) |-> [j \in 1..Len(ops[i].ents) |-> DeepPayload(h, ops[i].ents[j].v)]]

\* some record of the list has a key outside the vocabulary
UnknownKeyAt(ops, i) == \E j \in 1..Len(ops[i].ents) : ops[i].ents[j].k \notin Vocabulary
HasUnknownKey(ops) == \E i \in 1..Len(ops) : UnknownKeyAt(ops, i)

\* the records of the catalogue whose keys are known and whose payload is not
\* of the shape the key asks for
BadPayloadRecords == {RecBadCast, RecBadSet}

\* C1: process is side-effect-free on the Operation Set: no process call changes
\* the records of the set, the payloads of the records (an object given as a $set
\* value among them) or the compiled steps.
C1_ProcessLeavesTheSetAlone ==
    [][last'.call = "process" =>
          /\ sets' = sets
          /\ DeepRecords(heap', Operations') = DeepRecords(heap, Operations)]_vars

\* C2: in every reachable state of an Operation Set, also after an add or a
\* remove that raised, every record of the operations list has only keys of the
\* fixed vocabulary.
C2_OnlyVocabularyKeys == life = "ready" => ~HasUnknownKey(Operations)

\* C3: an add that raises (a new record with a key outside the vocabulary, a
\* before/after tag no record has) leaves the operations list and the compiled
\* steps exactly as they were before the call.
C3_FailedAddChangesNothing ==
    [][(last'.call = "add" /\ last'.err # "none") => sets' = sets]_vars

FirstUnknown(ops) == CHOOSE i \in 1..Len(ops) :
    UnknownKeyAt(ops, i) /\ \A j \in 1..(i - 1) : ~UnknownKeyAt(ops, j)

Run(h, list, obj) ==
    ProcessFrom(sets, regs, h, reformat(h, main, list).steps, 1, obj, MaxStack)

\* a record whose only key is $model, for the root path, with a list of names
IsModelList(h, rec) ==
    /\ Len(rec.ents) = 1
    /\ rec.ents[1].k = "$model"
    /\ rec.ents[1].v.t = "object"
    /\ Len(rec.ents[1].v.ents) = 1
    /\ rec.ents[1].v.ents[1].k = "."
    /\ IsArrayP(h, rec.ents[1].v.ents[1].v)

\* the registered sets of the names run one after the other, each on the value
\* the one before it returned
RECURSIVE ByName(_, _, _, _)
ByName(h, names, i, obj) ==
    IF i > Len(names) THEN Ret(h, obj)
    ELSE Then(process(sets, regs, h, regs[sets[main].models][names[i].s], obj, MaxStack - 1),
              LAMBDA r : ByName(r.h, names, i + 1, r.v))

\* the records run one after the other, each on the value the one before it
\* returned
RECURSIVE ByRecord(_, _, _, _)
ByRecord(h, ops, i, obj) ==
    IF i > Len(ops) THEN Ret(h, obj)
    ELSE Then(IF IsModelList(h, ops[i])
              THEN ByName(h, ElemsP(h, ops[i].ents[1].v.ents[1].v), 1, obj)
              ELSE Run(h, <<ops[i]>>, obj),
              LAMBDA r : ByRecord(r.h, ops, i + 1, r.v))

\* what the process call of a step returned is what r is
Returned(r) == last'.err = r.err /\ last'.ret = Deep(r.h, r.v)

\* C5: process applies the steps in declaration order, each on the value the
\* step before it returned: the records in list order, the sets a $model payload
\* names for one path in listed order; the value of the last step is the result.
C5_StepsRunInDeclarationOrder ==
    [][last'.call = "process" =>
          \E a \in {Alloc(heap, last'.input)} :
              Returned(ByRecord(a.h, Operations, 1, a.v))]_vars

\* a process call has returned from a set of two records, one naming two sets
C5_Witness ==
    /\ last.call = "process"
    /\ last.err = "none"
    /\ Len(Operations) = 2
    /\ \E i \in 1..2 : IsModelList(heap, Operations[i])

RECURSIVE ConcatAll(_, _)
ConcatAll(seqs, i) == IF i > Len(seqs) THEN <<>> ELSE seqs[i] \o ConcatAll(seqs, i + 1)

\* one record per key of each record, in the order the keys were written
SplitAsWritten(ops) ==
    ConcatAll([i \in 1..Len(ops) |->
                  [j \in 1..Len(ops[i].ents) |-> PObj(<<ops[i].ents[j]>>)]], 1)

\* the order of the table of operation keys
VocabularyOrder ==
    <<"$set", "$unset", "$move", "$copy", "$cast", "$map", "$wrap", "$func", "$model">>

\* one record per operation key of each record, in the order of the table
SplitByVocabulary(ops) ==
    ConcatAll([i \in 1..Len(ops) |->
                  ConcatAll([k \in 1..Len(VocabularyOrder) |->
                                SelectSeq([j \in 1..Len(ops[i].ents) |->
                                              PObj(<<ops[i].ents[j]>>)],
                                          LAMBDA rec : rec.ents[1].k = VocabularyOrder[k])],
                            1)], 1)

\* C6 as stated: the steps of a record with several operation keys run in the
\* order of the table (set, unset, move, copy, cast, map, wrap, func, model),
\* whatever the order the keys were written in.
C6_KeysRunInVocabularyOrder ==
    [][last'.call = "process" =>
          \E a \in {Alloc(heap, last'.input)} :
              Returned(Run(a.h, SplitByVocabulary(Operations), a.v))]_vars

\* C6, amended: the steps of a record with several operation keys run in the
\* order the keys were written in the record.
C6_KeysRunInWrittenOrder ==
    [][last'.call = "process" =>
          \E a \in {Alloc(heap, last'.input)} :
              Returned(Run(a.h, SplitAsWritten(Operations), a.v))]_vars

\* process has returned from a set whose record has $unset written before $set
C6_Witness ==
    /\ last.call = "process"
    /\ last.err = "none"
    /\ Len(Operations) = 1
    /\ Len(Operations[1].ents) = 2
    /\ Operations[1].ents[1].k = "$unset"
    /\ Operations[1].ents[2].k = "$set"

\* some record of the list is one of BadPayloadRecords
HasBadPayload(ops) == \E i \in 1..Len(ops) : ops[i] \in BadPayloadRecords

\* a compiled $model step of the set under study names no registered set
UnregisteredModelStep ==
    \E i \in 1..Len(sets[main].compiled) :
        /\ sets[main].compiled[i].operation = "$model"
        /\ \/ sets[main].compiled[i].args[1].s \notin DOMAIN regs[sets[main].models]
           \/ regs[sets[main].models][sets[main].compiled[i].args[1].s] = 0

Given(v) == v.t # "undefined"

\* the index, counted from 0, of the last record of the list that carries the
\* tag, -1 when no record carries it
LastIndexOf(ops, tag) ==
    IF \E i \in 1..Len(ops) : TagOf(ops[i]) = tag
    THEN (CHOOSE i \in 1..Len(ops) :
             TagOf(ops[i]) = tag /\ \A j \in (i + 1)..Len(ops) : TagOf(ops[j]) # tag) - 1
    ELSE -1

\* the list with the new records put in, the first of them at index pos
InsertedAt(ops, pos, newOps) ==
    SubSeq(ops, 1, pos) \o newOps \o SubSeq(ops, pos + 1, Len(ops))

\* the options of a call with only the one of highest precedence kept
Highest(o) ==
    IF Given(o.at) THEN Opt(Undef, Undef, o.at)
    ELSE IF Given(o.after) THEN Opt(Undef, o.after, Undef)
    ELSE Opt(o.before, Undef, Undef)

\* C8: the options of add are exclusive, at over after over before: a call
\* with several of them leaves what the same call with only the option of
\* highest precedence leaves (add(ops, {at: i, after: t}) inserts at index i).
C8_HighestPrecedenceOptionDecides ==
    [][last'.call = "add" =>
          \E alone \in {add(heap', main, sets[main], last'.newOps,
                            Highest(last').before, Highest(last').after, Highest(last').at)} :
              /\ Operations' = alone.operations
              /\ last'.err = alone.err]_vars

\* at most one option is given, and it names a place of the list
OnePlace(ops, o) ==
    \/ ~Given(o.before) /\ ~Given(o.after) /\ ~Given(o.at)
    \/ ~Given(o.before) /\ ~Given(o.after) /\ Given(o.at) /\ o.at.n \in 0..Len(ops)
    \/ ~Given(o.before) /\ Given(o.after) /\ ~Given(o.at) /\ LastIndexOf(ops, o.after) >= 0
    \/ Given(o.before) /\ ~Given(o.after) /\ ~Given(o.at) /\ LastIndexOf(ops, o.before) >= 0

\* the index the claims give the first new record
Place(ops, o) ==
    IF Given(o.at) THEN o.at.n
    ELSE IF Given(o.after) THEN LastIndexOf(ops, o.after) + 1
    ELSE IF Given(o.before) THEN LastIndexOf(ops, o.before)
    ELSE Len(ops)

\* C9: add puts the new records in together and in the given order and keeps the
\* order of the records there were: at the end with no option, the first of
\* them at index i with at = i (0 <= i <= length), right after the record tagged
\* t with after = t, right before it with before = t; the list grows by the
\* number of new records.
C9_AddInsertsAtThePlace ==
    [][(last'.call = "add" /\ OnePlace(Operations, last')) =>
          /\ Operations' = InsertedAt(Operations, Place(Operations, last'), last'.newOps)
          /\ Len(Operations') = Len(Operations) + Len(last'.newOps)]_vars

\* C10: a tag that several records carry resolves to the one of highest index,
\* for getIndexByTag, get, remove and the before/after of add; getIndexByTag
\* returns -1 exactly when no record carries the tag.
C10_LastMatchWins ==
    [][/\ last'.call = "getIndexByTag" =>
             last'.ret = Num(LastIndexOf(Operations, last'.id))
       /\ (last'.call = "get" /\ last'.id.t = "string") =>
             last'.ret = ElementAt(Operations, LastIndexOf(Operations, last'.id))
       /\ (last'.call = "remove" /\ last'.id.t = "string") =>
             Operations' = IF LastIndexOf(Operations, last'.id) >= 0
                           THEN SpliceOut(Operations, LastIndexOf(Operations, last'.id))
                           ELSE Operations
       /\ (last'.call = "add" /\ ~Given(last'.at) /\ OnePlace(Operations, last')) =>
             Operations' = InsertedAt(Operations, Place(Operations, last'), last'.newOps)]_vars

\* the index, counted from 0, that remove and get resolve an identifier to
Resolved(ops, id) == IF id.t = "string" THEN LastIndexOf(ops, id) ELSE id.n

\* C11: remove(idOrTag) removes exactly one record and returns it when the index
\* or tag resolves to a record of the list, the other records keeping their
\* order; when it does not resolve (a tag no record carries, an index that is
\* negative or past the end) it returns undefined and leaves the list unchanged.
C11_RemoveTakesOneRecordOut ==
    [][last'.call = "remove" =>
          IF Resolved(Operations, last'.id) \in 0..(Len(Operations) - 1)
          THEN /\ Operations' = SpliceOut(Operations, Resolved(Operations, last'.id))
               /\ Len(Operations') = Len(Operations) - 1
               /\ last'.ret = Operations[Resolved(Operations, last'.id) + 1]
               /\ last'.err = "none"
          ELSE /\ Operations' = Operations
               /\ last'.ret = Undef
               /\ last'.err = "none"]_vars

\* the compiled steps of the set under study
Compiled == sets[main].compiled

\* step i of the set under study is a $model step whose name is not registered
UnregisteredAt(i) ==
    /\ Compiled[i].operation = "$model"
    /\ \/ Compiled[i].args[1].s \notin DOMAIN regs[sets[main].models]
       \/ regs[sets[main].models][Compiled[i].args[1].s] = 0

\* the steps of the set under study before step i, run on obj
RunBefore(h, i, obj) ==
    ProcessFrom(sets, regs, h, SubSeq(Compiled, 1, i - 1), 1, obj, MaxStack)

\* the error of a process call that runs into step i after the steps before it
ErrorAt(r) == IF r.err # "none" THEN r.err ELSE IOE

Models == regs[sets[main].models]

\* the name is registered now, with an Operation Set
Registered(name) == name \in DOMAIN Models /\ Models[name] # 0

\* what the set registered now under the name returns for obj, or the error of
\* a name that is not registered
Invoked(h, name, obj) ==
    IF Registered(name) THEN process(sets, regs, h, Models[name], obj, MaxStack - 1)
    ELSE Throw(h, IOE)

\* C13: registry updates are never stale: after an entry was added to or replaced
\* in the registry, the next process call of a set holding that registry invokes,
\* for each name of its $model steps, the set registered at the time of the call.
C13_RegistryReadAtCallTime ==
    [][last'.call = "process" =>
          \E a \in {Alloc(heap, last'.input)} :
             /\ Operations \in {<<RecMissingModel>>, <<RecModelP>>, <<RecModelM3>>} =>
                    Returned(Invoked(a.h, Operations[1].ents[1].v.s, a.v))
             /\ (Len(Operations) = 1 /\ IsModelList(heap, Operations[1])) =>
                    Returned(ByName(a.h, <<Str("m1"), Str("m2")>>, 1, a.v))]_vars

\* a process call has returned from a set that names m1, after m1 was replaced
\* by a set made later than the set under study
C13_Witness ==
    /\ last.call = "process"
    /\ last.err = "none"
    /\ Len(Operations) = 1
    /\ IsModelList(heap, Operations[1])
    /\ Models["m1"] > main

\* C14: the registry is shared with nested sets: a procedure registered in a
\* Bridge, through the constructor or later through setProcedures, that has a
\* $model reference to another registered procedure resolves the name in the
\* registry of the Bridge when it is invoked, so that the invocation raises no
\* InvalidOperationError.
C14_NestedSetsShareTheRegistry ==
    (/\ last.call = "process"
     /\ Operations \in {<<RecModelP>>, <<RecModelM3>>}
     /\ Registered(Operations[1].ents[1].v.s)) => last.err # IOE

\* the path resolves in the value: every segment is a key of the object reached
\* so far, a wildcard standing for every element of an array
RECURSIVE Resolves(_, _, _)
Resolves(h, v, keys) ==
    IF keys = <<>> THEN TRUE
    ELSE IF ~IsRef(v) THEN FALSE
    ELSE IF keys[1] = "$"
    THEN /\ IsArray(h, v)
         /\ \A i \in 1..Len(h[v.n].e) : Resolves(h, h[v.n].e[i], Tail(keys))
    ELSE /\ HasKey(h, v.n, keys[1])
         /\ Resolves(h, GetKey(h, v.n, keys[1]), Tail(keys))

\* one sequence is the beginning of the other
IsPrefix(s, t) == Len(s) <= Len(t) /\ SubSeq(t, 1, Len(s)) = s
Nested(p) ==
    \/ IsPrefix(parsePath(p.from), parsePath(p.to))
    \/ IsPrefix(parsePath(p.to), parsePath(p.from))

OneStep(operation, field) ==
    /\ Len(Compiled) = 1
    /\ Compiled[1].operation = operation
    /\ Compiled[1].field = field

\* the field a of the input of the last call is a primitive value
PrimitiveAtA ==
    /\ "a" \in DOMAIN last.input.f
    /\ last.input.f.a.t \in {"string", "number", "null"}

\* the table of the $map step of the set under study, as a function of its keys
Table == Deep(heap, Compiled[1].args[1]).f

\* what the specification of map gives for v: table[v], else table[""], else v
Mapped(table, v) ==
    IF StringOf(<<>>, v) \in DOMAIN table THEN table[StringOf(<<>>, v)]
    ELSE IF "" \in DOMAIN table THEN table[""]
    ELSE v

\* C16: map(v, table) returns table[v] when v (as a string key) is a key of
\* table; otherwise it returns table[""] when table has a "" entry, and returns v
\* unchanged when table has no "" entry.
C16_MapFallsBackToTheValue ==
    (last.call = "process" /\ OneStep("$map", <<"a">>) /\ PrimitiveAtA) =>
        /\ last.err = "none"
        /\ last.ret.f.a = Mapped(Table, last.input.f.a)

\* C17: cast(value, 'number') never yields NaN: a value whose numeric conversion
\* is NaN (the string "abc") is cast to null, while a numeric string such as "6"
\* is cast to the number 6.
C17_CastNeverYieldsNaN ==
    (last.call = "process" /\ Operations = <<RecCast>> /\ PrimitiveAtA) =>
        /\ last.err = "none"
        /\ last.ret.f.a # NaN
        /\ last.input.f.a = Str("abc") => last.ret.f.a = Null
        /\ last.input.f.a = Str("6") => last.ret.f.a = Num(6)

\* the inputs in which the path a.b meets, at a, a primitive value or nothing:
\* { a: 'abc' }, { a: 5 }, { a: null }, {}
StopInputs ==
    {TObj("a" :> Str("abc")), TObj("a" :> Num(5)), TObj("a" :> Null), TObj(NoKeys)}

\* the inputs in which the second element of the array d is a primitive value
StopElements ==
    {TObj("d" :> TArr(<<TObj(("b" :> Num(0)) @@ ("c" :> Num(1))), Num(5)>>)),
     TObj("d" :> TArr(<<TObj("b" :> Num(0)), Null>>))}

\* the lists of one operation whose path goes through a to a.b
ThroughA == {<<RecCastNested>>, <<RecWrapNested>>, <<RecSetNested>>, <<Un("a.b.c")>>}

\* C18: best-effort traversal: if at a non-terminal segment of the path the
\* current value is a primitive (number, string, boolean, null) or missing,
\* process raises no error and returns a value equal to its input, with no key
\* added or removed; inside a wildcard fan-out that element is returned unchanged
\* while the other elements are still transformed.
C18_TraversalStopsAtPrimitives ==
    /\ (last.call = "process" /\ Operations \in ThroughA /\ last.input \in StopInputs) =>
           (last.err = "none" /\ last.ret = last.input)
    /\ (last.call = "process" /\ Operations = <<RecCastWild>>
          /\ last.input \in StopElements) =>
           /\ last.err = "none"
           /\ last.ret.f.d.e[2] = last.input.f.d.e[2]
           /\ last.ret.f.d.e[1].f.b = Str("0")

\* an element of the array after the broadcast of b = 'user': an object has the
\* field and its other fields as they were, any other element is as it was
Broadcast(element) ==
    IF element.t = "tobj" THEN TObj(("b" :> Str("user")) @@ element.f) ELSE element

\* C19: wildcard broadcast: for an array of N elements reached by the path
\* prefix and a wildcard path targeting a leaf field, after set every object
\* element has that field equal to the given value, no other field of any element
\* and nothing outside the array is altered, and the array still has exactly N
\* elements in the same order.
C19_WildcardSetBroadcasts ==
    (/\ last.call = "process"
     /\ Operations = <<RecSetWild>>
     /\ "d" \in DOMAIN last.input.f) =>
        /\ last.err = "none"
        /\ DOMAIN last.ret.f = DOMAIN last.input.f
        /\ \A k \in DOMAIN last.input.f \ {"d"} : last.ret.f[k] = last.input.f[k]
        /\ Len(last.ret.f.d.e) = Len(last.input.f.d.e)
        /\ \A i \in 1..Len(last.input.f.d.e) :
               last.ret.f.d.e[i] = Broadcast(last.input.f.d.e[i])

\* the set under study is made of one record whose only key is $set
OneSet ==
    /\ Len(Operations) = 1
    /\ Len(Operations[1].ents) = 1
    /\ Operations[1].ents[1].k = "$set"

\* C20: set is idempotent: for every input value v, path p (root and wildcard
\* paths included) and value x, applying the step set(p, x) twice yields the same
\* result as applying it once.
C20_SetTwiceIsSetOnce ==
    [][(last'.call = "process" /\ OneSet) =>
          \E a \in {Alloc(heap, last'.input)} :
              Returned(Run(a.h, <<Operations[1], Operations[1]>>, a.v))]_vars

\* a wildcard set has returned for an array of two objects
C20_Witness ==
    /\ last.call = "process"
    /\ last.err = "none"
    /\ Operations = <<RecSetWild>>
    /\ "d" \in DOMAIN last.input.f
    /\ Len(last.input.f.d.e) = 2
    /\ last.ret.f.d.e[2].t = "tobj"

\* what process of the set under study does to the input obj
Processed(h, obj) == process(sets, regs, h, main, obj, MaxStack)

\* C21: a path written as the empty string or a lone dot always addresses the
\* whole value: set with such a path makes process return the given value
\* whatever the input was, unset with such a path makes process return undefined,
\* and no key named "" or "." is created or deleted: the input object keeps the
\* keys and values it had.
C21_RootPathsAddressTheWholeValue ==
    [][last'.call = "process" =>
          \E a \in {Alloc(heap, last'.input)} :
          \E r \in {Processed(a.h, a.v)} :
             /\ Operations \in {<<RecSetRoot>>, <<RecSetEmpty>>} =>
                    /\ last'.err = "none"
                    /\ last'.ret = Num(1)
                    /\ Deep(r.h, a.v) = Deep(a.h, a.v)
             /\ Operations \in {<<Un("")>>, <<Un(".")>>} =>
                    /\ last'.err = "none"
                    /\ last'.ret = Undef
                    /\ Deep(r.h, a.v) = Deep(a.h, a.v)]_vars

\* a set to the path '.' has returned the value for an input that has the keys
\* '' and '.'
C21_Witness ==
    /\ last.call = "process"
    /\ last.err = "none"
    /\ Operations = <<RecSetRoot>>
    /\ last.input = TObj(("" :> Num(2)) @@ ("." :> Num(3)))
    /\ last.ret = Num(1)

\* step k of the set under study applied to obj
StepAt(h, k, obj) ==
    applyOperationAt(sets, regs, h, Compiled[k], obj, Compiled[k].field, MaxStack)

\* C22: stop on first error without rollback: if step k of a process call raises
\* InvalidOperationError, the error propagates to the caller, no step after k is
\* applied, and the effects of steps 1..k-1 on the input value are kept: the
\* input value is left as the steps up to k made it ({ a: 1, b: 0 } for
\* [set a = 1, $model of a name not registered, unset b] on { b: 0 }).
C22_FirstErrorStopsWithoutRollback ==
    [][last'.call = "process" =>
          \A k \in 1..Len(Compiled) :
          \E a \in {Alloc(heap, last'.input)} :
          \E b \in {RunBefore(a.h, k, a.v)} :
          \E r \in {Processed(a.h, a.v)} :
             (b.err = "none" /\ StepAt(b.h, k, b.v).err = IOE) =>
                 /\ last'.err = IOE
                 /\ r.err = IOE
                 /\ Deep(r.h, a.v) = Deep(StepAt(b.h, k, b.v).h, a.v)
                 /\ UnregisteredAt(k) => Deep(r.h, a.v) = Deep(b.h, a.v)
                 /\ (/\ Operations = <<RecSetA, RecMissingModel, RecUnsetB>>
                     /\ last'.input = TObj("b" :> Num(0))) =>
                        Deep(r.h, a.v) = TObj(("a" :> Num(1)) @@ ("b" :> Num(0)))]_vars

\* a process call of [set a, $model of a name not registered, unset b] has raised
\* InvalidOperationError
C22_Witness ==
    /\ last.call = "process"
    /\ last.err = IOE
    /\ Operations = <<RecSetA, RecMissingModel, RecUnsetB>>
    /\ UnregisteredAt(2)
    /\ last.input = TObj("b" :> Num(0))

\* the value at the path in a value read as a literal: under a wildcard the
\* values of the elements; undefined where the path does not resolve
RECURSIVE At(_, _)
At(v, keys) ==
    IF keys = <<>> THEN v
    ELSE IF v.t = "tobj" /\ keys[1] \in DOMAIN v.f THEN At(v.f[keys[1]], Tail(keys))
    ELSE IF v.t = "tarr" /\ keys[1] = "$"
    THEN [t |-> "each", e |-> [i \in 1..Len(v.e) |-> At(v.e[i], Tail(keys))]]
    ELSE Undef

\* the path resolves in the value the literal stands for
ResolvesIn(lit, keys) == \E a \in {Alloc(<<>>, lit)} : Resolves(a.h, a.v, keys)

\* the value the literal stands for, as a deep comparison sees it
DeepOf(lit) == Deep(Alloc(<<>>, lit).h, Alloc(<<>>, lit).v)

\* a segment of the path that is not its last one leads to null
NullBefore(input, keys) ==
    \E i \in 1..(Len(keys) - 1) : At(input, SubSeq(keys, 1, i)) = Null

\* { a: '6', b: { c: 1 } }
InputAB == TObj(("a" :> Str("6")) @@ ("b" :> TObj("c" :> Num(1))))

\* after copy b -> a, a later step inside one of the two leaves the other alone
CopiesAreIndependent ==
    /\ (last.call = "process" /\ Operations = <<Cp(Pair("b", "a")), RecSetAC>>
          /\ last.input = InputAB) =>
           last.ret = TObj(("a" :> TObj("c" :> Num(2))) @@ ("b" :> TObj("c" :> Num(1))))
    /\ (last.call = "process" /\ Operations = <<Cp(Pair("b", "a")), RecSetBC>>
          /\ last.input = InputAB) =>
           last.ret = TObj(("a" :> TObj("c" :> Num(1))) @@ ("b" :> TObj("c" :> Num(2))))

C24_GapsResolveInTheBridgeModels ==
    /\ life = "ready" => sets[main].models = 1
    /\ (/\ last.call = "process"
        /\ Operations \in {<<RecModelM1>>, <<RecModelP>>}
        /\ Operations[1].ents[1].v.s \in DOMAIN regs[1]) => last.err # IOE

\* the order of two version strings, segment by segment as integers, a
\* missing trailing segment counting as 0
VersionOrder(v, w) ==
    CompareFrom(SplitVersion(v) \o [k \in 1..(Len(SplitVersion(w)) - Len(SplitVersion(v))) |-> 0],
                SplitVersion(w), 1).order

\* how often each version string stands in a list of version strings
Count(list) == [v \in Versions |-> Cardinality({k \in 1..Len(list) : list[k] = v})]
VersionsOf(arr) == [k \in 1..Len(arr) |-> arr[k].version]

\* C25: after every addBridges call the bridges of the versioner are the
\* bridges it had and the bridges added, in ascending version order (1.0
\* equal to 1.0.0 and below 1.0.5)
C25_BridgesAscendByVersion ==
    [][last'.call = "addBridges" =>
        /\ Count(VersionsOf(bridges')) = Count(VersionsOf(bridges) \o last'.newOps)
        /\ \A i, j \in 1..Len(bridges') :
             i < j => VersionOrder(bridges'[i].version, bridges'[j].version) <= 0]_vars

\* the number of leading segments that the two paths of a pair share
SharedLen(p) ==
    CHOOSE c \in 0..Len(parsePath(p.from)) :
        /\ c <= Len(parsePath(p.to))
        /\ SubSeq(parsePath(p.from), 1, c) = SubSeq(parsePath(p.to), 1, c)
        /\ (c < Len(parsePath(p.from)) /\ c < Len(parsePath(p.to))) =>
               parsePath(p.from)[c + 1] # parsePath(p.to)[c + 1]

\* below the shared beginning, a segment of the source path that is not the
\* last one leads from an object of the input to a value that is no object
Stuck(input, p) ==
    \E i \in 1..Len(parsePath(p.from)) :
        /\ SharedLen(p) < i
        /\ i < Len(parsePath(p.from))
        /\ At(input, SubSeq(parsePath(p.from), 1, i - 1)).t = "tobj"
        /\ At(input, SubSeq(parsePath(p.from), 1, i)).t \notin {"tobj", "tarr", "each"}

\* C26: a move or a copy whose source path meets, below the shared beginning
\* and before its last segment, a value that is no object (missing or
\* primitive) returns a value equal to the input and raises nothing: nothing
\* is deleted at the source and the destination is neither made nor changed
C26_MoveAndCopyAbortUntouched ==
    \A p \in DeepPairs :
        (/\ last.call = "process"
         /\ Operations \in {<<Mv(p)>>, <<Cp(p)>>}
         /\ Stuck(last.input, p)) =>
            /\ last.err = "none"
            /\ last.ret = DeepOf(last.input)

\* below the shared beginning, a segment of the destination path that is not
\* the last one leads from an object of the input to a value that is missing
\* or is no plain object
Blocked(input, p) ==
    \E i \in 1..Len(parsePath(p.to)) :
        /\ SharedLen(p) < i
        /\ i < Len(parsePath(p.to))
        /\ At(input, SubSeq(parsePath(p.to), 1, i - 1)).t = "tobj"
        /\ At(input, SubSeq(parsePath(p.to), 1, i)).t # "tobj"

\* C27: a move or a copy of a source that resolves, whose destination path
\* meets below the shared beginning an intermediate that is missing or is no
\* plain object (a primitive, null or an array), raises nothing and leaves
\* the extracted value at the destination path
C27_DestinationPathIsCreated ==
    \A p \in DeepPairs :
        (/\ last.call = "process"
         /\ Operations \in {<<Mv(p)>>, <<Cp(p)>>}
         /\ ResolvesIn(last.input, parsePath(p.from))
         /\ Blocked(last.input, p)) =>
            /\ last.err = "none"
            /\ At(last.ret, parsePath(p.to)) = At(last.input, parsePath(p.from))

\* the value v with x in the place of what the path leads to
RECURSIVE Put(_, _, _)
Put(v, keys, x) ==
    IF keys = <<>> THEN x
    ELSE [v EXCEPT !.f = (keys[1] :> Put(v.f[keys[1]], Tail(keys), x)) @@ v.f]

InvokedBy(id) ==
    {regs[sets[id].models][sets[id].compiled[k].args[1].s] :
        k \in {j \in 1..Len(sets[id].compiled) :
                  /\ sets[id].compiled[j].operation = "$model"
                  /\ sets[id].compiled[j].args[1].s \in DOMAIN regs[sets[id].models]
                  /\ regs[sets[id].models][sets[id].compiled[j].args[1].s] # 0}}

\* the sets reached from the sets of S in one to n invocations
RECURSIVE Reached(_, _)
Reached(S, n) ==
    IF n = 0 THEN {}
    ELSE UNION {InvokedBy(id) : id \in S} \cup Reached(UNION {InvokedBy(id) : id \in S}, n - 1)

\* the set under study reaches a procedure that reaches itself
Cyclic ==
    \E id \in {main} \cup Reached({main}, Len(sets)) : id \in Reached({id}, Len(sets))

\* C28: a process call terminates when no procedure that the set reaches
\* through $model references reaches itself: the call stack is exhausted
\* (the recursion does not end) only under a procedure that invokes itself,
\* directly or through others
C28_OnlyCyclesDoNotTerminate ==
    (last.call = "process" /\ last.err = "RangeError") => Cyclic

\* a set has run p, which runs q, which wraps the input, and has returned
C28_Witness ==
    /\ last.call = "process"
    /\ last.err = "none"
    /\ ~Cyclic
    /\ Operations = <<RecModelP>>
    /\ "q" \in DOMAIN regs[1]
    /\ last.input = TObj("b" :> Num(0))
    /\ last.ret = TObj("y" :> TObj("b" :> Num(0)))

\* the current list compiles: no call has left a record in it that reformat
\* rejects
Compiles == reformat(heap, main, Operations).err = "none"

\* C29: the compiled steps reflect the current operations list: a successful
\* add or remove leaves the steps that compiling the list it leaves gives, and
\* after successful calls process returns what process on a set freshly
\* constructed from the current list, with the same registry, returns
C29_CompiledStepsFollowTheList ==
    [][/\ (last'.call \in {"add", "remove"} /\ last'.err = "none") =>
            sets'[main].compiled = reformat(heap', main, sets'[main].operations).steps
       /\ (last'.call = "process" /\ Compiles) =>
            \E a \in {Alloc(heap, last'.input)} : Returned(Run(a.h, Operations, a.v))]_vars

\* an add has returned and has left a list of three records
C29_Witness ==
    /\ last.call = "add"
    /\ last.err = "none"
    /\ Len(last.newOps) > 0
    /\ Len(Operations) = 3
    /\ Len(Compiled) >= 3
====
